---------------------------- MODULE Spec2Model ----------------------------
(***************************************************************************)
(* A model of go.jsonvalue: the string unescaper of utf8.go, the parser    *)
(* entry point Unmarshal with the lazily materialized number node, and the *)
(* typed accessors of jsonvalue.go.                                        *)
(*                                                                         *)
(* Bytes are integers 0..255.  Indices into buffers are 0-based as in the  *)
(* Go source; At(b, k) reads b[k].  64-bit integers are kept at their     *)
(* width as four 16-bit limbs, least significant first.                    *)
(***************************************************************************)
EXTENDS Integers, Sequences, FiniteSets, TLC

(***************************************************************************)
(* Bounds of the model.                                                    *)
(***************************************************************************)
\* number of units (plain bytes, escapes, UTF-8 sequences) in a decoded span
MaxUnits == 2
\* number of whitespace bytes put before and after a JSON text
MaxPad == 1
\* number of runs of parseNumber on one node after which no call is made on it
MaxParse == 3

(***************************************************************************)
(* Characters.                                                             *)
(***************************************************************************)
Ord ==
  [ sp |-> 32, cr |-> 13, lf |-> 10, tab |-> 9, bs |-> 8, ff |-> 12,
    quote |-> 34, apos |-> 39, slash |-> 47, bslash |-> 92,
    minus |-> 45, dot |-> 46, comma |-> 44, colon |-> 58,
    lbrace |-> 123, rbrace |-> 125, lbrack |-> 91, rbrack |-> 93,
    d0 |-> 48, d1 |-> 49, d2 |-> 50, d3 |-> 51, d4 |-> 52, d5 |-> 53,
    d6 |-> 54, d7 |-> 55, d8 |-> 56, d9 |-> 57,
    a |-> 97, b |-> 98, c |-> 99, e |-> 101, f |-> 102, g |-> 103,
    k |-> 107, l |-> 108, n |-> 110, r |-> 114, s |-> 115, t |-> 116,
    u |-> 117, x |-> 120, y |-> 121, z |-> 122,
    A |-> 65, B |-> 66, C |-> 67, D |-> 68, E |-> 69, F |-> 70, U |-> 85, Z |-> 90,
    lt |-> 60, gt |-> 62, amp |-> 38 ]

\* the bytes of a text written as a tuple of character names
B(names) == [j \in 1..Len(names) |-> Ord[names[j]]]

At(b, j) == b[j + 1]

RECURSIVE Pow2(_)
Pow2(n) == IF n = 0 THEN 1 ELSE 2 * Pow2(n - 1)

\* x & y on non-negative integers
RECURSIVE BitAnd(_, _)
BitAnd(x, y) ==
  IF x = 0 \/ y = 0 THEN 0
  ELSE (x % 2) * (y % 2) + 2 * BitAnd(x \div 2, y \div 2)

\* byte(x): the low 8 bits
Byte(x) == x % 256

RECURSIVE Flatten(_)
Flatten(ss) == IF ss = <<>> THEN <<>> ELSE Head(ss) \o Flatten(Tail(ss))

RECURSIVE SeqsUpTo(_, _)
SeqsUpTo(S, n) ==
  IF n = 0 THEN {<<>>}
  ELSE LET shorter == SeqsUpTo(S, n - 1)
       IN  shorter \cup {Append(q, y) : q \in {p \in shorter : Len(p) = n - 1}, y \in S}


(***************************************************************************)
(* utf8.go: the in-place string unescaper.                                 *)
(*                                                                         *)
(* A decoder state is the record                                           *)
(*   [b, i, sectEnd, end, err, oob]                                        *)
(* b is it.b, i the read index, sectEnd the write index, end the end of    *)
(* the span; err is "" for a nil error, "panic" for an index outside the   *)
(* buffer; oob records that a byte outside the span was read.              *)
(***************************************************************************)
ErrIllegalUTF8 == "illegal UTF8 string"
ErrEscapeEnd == "escape symbol not followed by another character"
ErrUnknownEscape == "unreconized character after escape symbol"
ErrHex == "invalid unicode value character"
ErrUTF16Short == "insufficient UTF-16 data"
ErrUTF16NoEscape == "expect unicode escape character"
ErrUTF16Second == "expect second UTF-16 encoding"
Panic == "panic"

Fail(st, e) == [st EXCEPT !.err = e]

Put(b, j, x) == [b EXCEPT ![j + 1] = x]

\* chrToHex: the value, and whether errOut is set
chrToHexErr(chr) ==
  ~ (\/ (chr >= Ord.d0 /\ chr <= Ord.d9)
     \/ (chr >= Ord.a /\ chr <= Ord.z)
     \/ (chr >= Ord.A /\ chr <= Ord.Z))

chrToHex(chr) ==
  IF chr >= Ord.d0 /\ chr <= Ord.d9 THEN chr - Ord.d0
  ELSE IF chr >= Ord.a /\ chr <= Ord.z THEN chr - Ord.a + 10
  ELSE IF chr >= Ord.A /\ chr <= Ord.Z THEN chr - Ord.A + 10
  ELSE 0

runeIdentifyingBytes2(chr) == BitAnd(chr, 192) = 192

runeIdentifyingBytes3(chr) == BitAnd(chr, 224) = 224

runeIdentifyingBytes4(chr) == BitAnd(chr, 248) = 248

\* C.memcpy of le bytes inside one buffer.  With dst # src and overlapping
\* regions the result depends on the direction the build copies in.
RECURSIVE CopyFwd(_, _, _, _, _)
CopyFwd(b, dst, src, j, le) ==
  IF j >= le THEN b
  ELSE CopyFwd(Put(b, dst + j, At(b, src + j)), dst, src, j + 1, le)

RECURSIVE CopyBwd(_, _, _, _)
CopyBwd(b, dst, src, j) ==
  IF j < 0 THEN b
  ELSE CopyBwd(Put(b, dst + j, At(b, src + j)), dst, src, j - 1)

memcpy(b, dst, src, le, dir) ==
  IF dst = src THEN b
  ELSE IF dir = "fwd" THEN CopyFwd(b, dst, src, 0, le)
  ELSE CopyBwd(b, dst, src, le - 1)

\* assignWideRune: the buffer after the write, and the number of bytes written
assignWideRune(b, dst, r) ==
  IF r <= 2047 THEN
    LET b0 == Byte(Byte(BitAnd(r, 1984) \div Pow2(6)) + 192)
        b1 == Byte(Byte(BitAnd(r, 63)) + 128)
    IN  [b |-> Put(Put(b, dst, b0), dst + 1, b1), le |-> 2]
  ELSE IF r <= 65535 THEN
    LET b0 == Byte(Byte(BitAnd(r, 61440) \div Pow2(12)) + 224)
        b1 == Byte(Byte(BitAnd(r, 4032) \div Pow2(6)) + 128)
        b2 == Byte(Byte(BitAnd(r, 63)) + 128)
    IN  [b |-> Put(Put(Put(b, dst, b0), dst + 1, b1), dst + 2, b2), le |-> 3]
  ELSE
    LET b0 == Byte(Byte(BitAnd(r, 1835008) \div Pow2(18)) + 240)
        b1 == Byte(Byte(BitAnd(r, 258048) \div Pow2(12)) + 128)
        b2 == Byte(Byte(BitAnd(r, 4032) \div Pow2(6)) + 128)
        b3 == Byte(Byte(BitAnd(r, 63)) + 128)
    IN  [b |-> Put(Put(Put(Put(b, dst, b0), dst + 1, b1), dst + 2, b2), dst + 3, b3),
         le |-> 4]

\* the four hex digits at b[j..j+3] as one number
Hex4(b, j) ==
  chrToHex(At(b, j)) * Pow2(12) + chrToHex(At(b, j + 1)) * Pow2(8)
    + chrToHex(At(b, j + 2)) * Pow2(4) + chrToHex(At(b, j + 3))

Hex4Err(b, j) == \E d \in 0..3 : chrToHexErr(At(b, j + d))

\* a variant that leaves out the offset 0x10000 of the supplementary planes
handleEscapeUnicodeStartNoPlane(st) ==
  IF st.end - st.i <= 5 THEN Fail(st, ErrEscapeEnd)
  ELSE IF Hex4Err(st.b, st.i + 2) THEN Fail(st, ErrHex)
  ELSE
    LET r == Hex4(st.b, st.i + 2) IN
    IF r <= 55295 \/ r >= 57344 THEN
      LET w == assignWideRune(st.b, st.sectEnd, r)
      IN  [st EXCEPT !.b = w.b, !.i = st.i + 6, !.sectEnd = st.sectEnd + w.le]
    ELSE IF st.end - st.i <= 11 THEN Fail(st, ErrUTF16Short)
    ELSE IF At(st.b, st.i + 6) # Ord.bslash \/ At(st.b, st.i + 7) # Ord.u
      THEN Fail(st, ErrUTF16NoEscape)
    ELSE IF Hex4Err(st.b, st.i + 8) THEN Fail(st, ErrHex)
    ELSE
      LET ex == Hex4(st.b, st.i + 8) - 56320 IN
      IF ex > 1023 THEN Fail(st, ErrUTF16Second)
      ELSE
        LET r2 == (r - 55296) * Pow2(10) + ex
            w  == assignWideRune(st.b, st.sectEnd, r2)
        IN  [st EXCEPT !.b = w.b, !.i = st.i + 12, !.sectEnd = st.sectEnd + w.le]

handleEscapeUnicodeStart(st) ==
  IF st.end - st.i <= 5 THEN Fail(st, ErrEscapeEnd)
  ELSE IF Hex4Err(st.b, st.i + 2) THEN Fail(st, ErrHex)
  ELSE
    LET r == Hex4(st.b, st.i + 2) IN
    IF r <= 55295 \/ r >= 57344 THEN
      LET w == assignWideRune(st.b, st.sectEnd, r)
      IN  [st EXCEPT !.b = w.b, !.i = st.i + 6, !.sectEnd = st.sectEnd + w.le]
    ELSE IF st.end - st.i <= 11 THEN Fail(st, ErrUTF16Short)
    ELSE IF At(st.b, st.i + 6) # Ord.bslash \/ At(st.b, st.i + 7) # Ord.u
      THEN Fail(st, ErrUTF16NoEscape)
    ELSE IF Hex4Err(st.b, st.i + 8) THEN Fail(st, ErrHex)
    ELSE
      LET ex == Hex4(st.b, st.i + 8) - 56320 IN
      IF ex > 1023 THEN Fail(st, ErrUTF16Second)
      ELSE
        LET r2 == (r - 55296) * Pow2(10) + ex + 65536
            w  == assignWideRune(st.b, st.sectEnd, r2)
        IN  [st EXCEPT !.b = w.b, !.i = st.i + 12, !.sectEnd = st.sectEnd + w.le]

\* a variant whose write index runs ahead of the read index
EscapeOneAhead(st, chr) ==
  [st EXCEPT !.b = Put(st.b, st.sectEnd, chr),
             !.sectEnd = st.sectEnd + 3, !.i = st.i + 2]

\* one case of handleEscapeStart's switch that writes a single character
EscapeOne(st, chr) ==
  [st EXCEPT !.b = Put(st.b, st.sectEnd, chr),
             !.sectEnd = st.sectEnd + 1, !.i = st.i + 2]

handleEscapeStart(st) ==
  IF st.end - st.i < 1 THEN Fail(st, ErrEscapeEnd)
  ELSE IF st.i + 1 >= Len(st.b) THEN Fail(st, Panic)
  ELSE
    LET chr == At(st.b, st.i + 1)
        rd  == [st EXCEPT !.oob = st.oob \/ st.i + 1 >= st.end]
    IN  IF chr \in {Ord.quote, Ord.apos, Ord.slash, Ord.bslash} THEN EscapeOne(rd, chr)
        ELSE IF chr = Ord.b THEN EscapeOne(rd, Ord.bs)
        ELSE IF chr = Ord.f THEN EscapeOne(rd, Ord.ff)
        ELSE IF chr = Ord.r THEN EscapeOne(rd, Ord.cr)
        ELSE IF chr = Ord.n THEN EscapeOne(rd, Ord.lf)
        ELSE IF chr = Ord.t THEN EscapeOne(rd, Ord.tab)
        ELSE IF chr = Ord.u THEN handleEscapeUnicodeStart(rd)
        ELSE Fail(rd, ErrUnknownEscape)

\* the closure shift of parseStrFromBytes
shift(st, le, dir) ==
  IF st.end - st.i < le THEN Fail(st, ErrIllegalUTF8)
  ELSE [st EXCEPT !.b = memcpy(st.b, st.sectEnd, st.i, le, dir),
                  !.sectEnd = st.sectEnd + le, !.i = st.i + le]

\* one iteration of the loop of parseStrFromBytes (i < end, err = nil)
LoopBody(st, dir) ==
  LET chr == At(st.b, st.i) IN
  IF chr <= 127 THEN
    IF chr = Ord.bslash THEN handleEscapeStart(st)
    ELSE [st EXCEPT !.i = st.i + 1, !.sectEnd = st.sectEnd + 1]
  ELSE IF runeIdentifyingBytes2(chr) THEN shift(st, 2, dir)
  ELSE IF runeIdentifyingBytes3(chr) THEN shift(st, 3, dir)
  ELSE IF runeIdentifyingBytes4(chr) THEN shift(st, 4, dir)
  ELSE Fail(st, ErrIllegalUTF8)

DecStart(b, offset, length) ==
  [b |-> b, i |-> offset, sectEnd |-> offset, end |-> offset + length,
   err |-> "", oob |-> FALSE]

\* parseStrFromBytes run to its return: the final decoder state
RECURSIVE RunLoop(_, _)
RunLoop(st, dir) ==
  IF st.err # "" \/ st.i >= st.end THEN st ELSE RunLoop(LoopBody(st, dir), dir)

parseStrFromBytes(b, offset, length, dir) == RunLoop(DecStart(b, offset, length), dir)


(***************************************************************************)
(* 64-bit integers: four 16-bit limbs, least significant first.  A signed  *)
(* value is its two's complement bit pattern.                              *)
(***************************************************************************)
Limb == Pow2(16)

Z64 == <<0, 0, 0, 0>>

\* the limbs of a small natural number (below 2^31)
FromNat(n) == <<n % Limb, n \div Limb, 0, 0>>

\* x * 10 + d on 64 bits: the low 64 bits and the carry out of them
MulAdd10(x, d) ==
  LET c0 == x[1] * 10 + d
      c1 == x[2] * 10 + c0 \div Limb
      c2 == x[3] * 10 + c1 \div Limb
      c3 == x[4] * 10 + c2 \div Limb
  IN  [val |-> <<c0 % Limb, c1 % Limb, c2 % Limb, c3 % Limb>>, carry |-> c3 \div Limb]

\* -x on 64 bits (two's complement)
Neg64(x) ==
  LET c0 == (Limb - 1 - x[1]) + 1
      c1 == (Limb - 1 - x[2]) + c0 \div Limb
      c2 == (Limb - 1 - x[3]) + c1 \div Limb
      c3 == (Limb - 1 - x[4]) + c2 \div Limb
  IN  <<c0 % Limb, c1 % Limb, c2 % Limb, c3 % Limb>>

\* x > y as unsigned 64-bit numbers
Gt64(x, y) ==
  \E j \in 1..4 : x[j] > y[j] /\ \A h \in (j + 1)..4 : x[h] = y[h]

\* 0x7fffffffffffffff and 0x8000000000000000
MaxInt64 == <<65535, 65535, 65535, 32767>>

MinInt64Bits == <<0, 0, 0, 32768>>

IsDigit(c) == c >= Ord.d0 /\ c <= Ord.d9

Contains(b, c) == \E j \in 1..Len(b) : b[j] = c

(***************************************************************************)
(* Floating point values.  A float64 obtained from a decimal text is kept  *)
(* as that decimal: its sign, its integer part on 64 bits (big: the        *)
(* integer part does not fit 64 bits) and its fraction digits.  One        *)
(* obtained by converting an integer is kept as "the float64 nearest to"   *)
(* that integer.                                                           *)
(***************************************************************************)
FDec(neg, ip, big, frac) ==
  [src |-> "dec", neg |-> neg, ip |-> ip, big |-> big, frac |-> frac]

\* float64(x) for x of type int64
FOfInt64(x) == [src |-> "i64", neg |-> x[4] >= 32768, ip |-> x, big |-> FALSE, frac |-> <<>>]

\* float64(x) for x of type uint64
FOfUint64(x) == [src |-> "u64", neg |-> FALSE, ip |-> x, big |-> FALSE, frac |-> <<>>]

F0 == FDec(FALSE, Z64, FALSE, <<>>)

FIsZero(f) == f.ip = Z64 /\ ~ f.big /\ \A j \in 1..Len(f.frac) : f.frac[j] = Ord.d0

\* f < 0
FNegative(f) == f.neg /\ ~ FIsZero(f)

\* int64(f): truncation toward zero.  Outside the range of int64 Go leaves the
\* result to the implementation: amd64 gives 0x8000000000000000 ("wrap"),
\* arm64 saturates ("sat")
Int64OfF(f, arch) ==
  IF f.src # "dec" THEN f.ip
  ELSE IF ~ f.neg THEN
    IF f.big \/ Gt64(f.ip, MaxInt64)
    THEN (IF arch = "wrap" THEN MinInt64Bits ELSE MaxInt64)
    ELSE f.ip
  ELSE IF f.big \/ Gt64(f.ip, MinInt64Bits) THEN MinInt64Bits
  ELSE Neg64(f.ip)

\* uint64(f): a negative f with a non-zero integer part wraps on amd64 and
\* saturates to 0 on arm64
Uint64OfF(f, arch) ==
  IF f.src # "dec" THEN f.ip
  ELSE IF ~ f.neg THEN
    IF f.big THEN (IF arch = "wrap" THEN MinInt64Bits ELSE Neg64(FromNat(1)))
    ELSE f.ip
  ELSE IF f.ip = Z64 /\ ~ f.big THEN Z64
  ELSE IF arch = "wrap" THEN Int64OfF(f, arch) ELSE Z64

(***************************************************************************)
(* The text-to-number conversions used by parseNumber.                     *)
(***************************************************************************)
ErrSyntax == "invalid syntax"
ErrRange == "value out of range"

\* the digits b[from..Len(b)] accumulated on 64 bits
RECURSIVE AccDigits(_, _, _)
AccDigits(b, j, acc) ==
  IF j > Len(b) THEN [val |-> acc, err |-> ""]
  ELSE IF ~ IsDigit(b[j]) THEN [val |-> Z64, err |-> ErrSyntax]
  ELSE LET m == MulAdd10(acc, b[j] - Ord.d0)
       IN  IF m.carry > 0 THEN [val |-> Z64, err |-> ErrRange]
           ELSE AccDigits(b, j + 1, m.val)

\* an unsigned decimal integer of at most 64 bits
parseUint(b) ==
  IF Len(b) = 0 THEN [val |-> Z64, err |-> ErrSyntax] ELSE AccDigits(b, 1, Z64)

\* a signed decimal integer of at most 64 bits
parseInt(b) ==
  IF Len(b) = 0 THEN [val |-> Z64, err |-> ErrSyntax]
  ELSE LET neg == b[1] = Ord.minus
           Signed(m) ==
             IF m.err # "" THEN m
             ELSE IF ~ neg /\ Gt64(m.val, MaxInt64) THEN [val |-> Z64, err |-> ErrRange]
             ELSE IF neg /\ Gt64(m.val, MinInt64Bits) THEN [val |-> Z64, err |-> ErrRange]
             ELSE [val |-> IF neg THEN Neg64(m.val) ELSE m.val, err |-> ""]
       IN  Signed(parseUint(IF neg THEN Tail(b) ELSE b))

\* a decimal fraction: an optional '-', digits, one '.', digits, with at least
\* one digit
parseFloat(b) ==
  LET neg  == Len(b) > 0 /\ b[1] = Ord.minus
      body == IF neg THEN Tail(b) ELSE b
      dots == {j \in 1..Len(body) : body[j] = Ord.dot}
  IN  IF Cardinality(dots) # 1 \/ Len(body) < 2
         \/ \E j \in 1..Len(body) : ~ IsDigit(body[j]) /\ body[j] # Ord.dot
      THEN [val |-> F0, err |-> ErrSyntax]
      ELSE LET d    == CHOOSE j \in dots : TRUE
               frac == SubSeq(body, d + 1, Len(body))
               Val(ip) == [val |-> FDec(neg, ip.val, ip.err # "", frac), err |-> ""]
           IN  Val(AccDigits(SubSeq(body, 1, d - 1), 1, Z64))

(***************************************************************************)
(* jsonvalue.go: the node V.  nparse is not a field of V: it counts the    *)
(* runs of parseNumber on the node.  An object's members are kept as a     *)
(* sequence of [k, v] pairs with distinct keys.                            *)
(***************************************************************************)
ValueTypes == {"Null", "Boolean", "Number", "String", "Object", "Array"}

\* a nil *V
NilV == [valueType |-> "nil"]

\* new(): the zero V with the type NotExist
new ==
  [valueType |-> "NotExist", valueBytes |-> <<>>,
   parsed |-> FALSE, negative |-> FALSE, floated |-> FALSE,
   str |-> <<>>, i64 |-> Z64, u64 |-> Z64, boolean |-> FALSE, f64 |-> F0,
   object |-> <<>>, array |-> <<>>, nparse |-> 0]

newObject == [new EXCEPT !.valueType = "Object"]

newArray == [new EXCEPT !.valueType = "Array"]

\* a variant whose unsigned branch does not set value.i64
parseNumberNoInt64(v, arch) ==
  LET b == v.valueBytes
      n == [v EXCEPT !.nparse = @ + 1]
      \* the three branches, p being what the conversion returned
      Floated(p) ==
        IF p.err # "" THEN [v |-> [n EXCEPT !.floated = TRUE, !.f64 = p.val], err |-> p.err]
        ELSE [v |-> [n EXCEPT !.floated = TRUE, !.f64 = p.val, !.parsed = TRUE,
                              !.negative = FNegative(p.val),
                              !.i64 = Int64OfF(p.val, arch),
                              !.u64 = Uint64OfF(p.val, arch)],
              err |-> ""]
      Negative(p) ==
        IF p.err # "" THEN [v |-> [n EXCEPT !.negative = TRUE, !.i64 = p.val], err |-> p.err]
        ELSE [v |-> [n EXCEPT !.negative = TRUE, !.i64 = p.val, !.parsed = TRUE,
                              !.u64 = p.val, !.f64 = FOfInt64(p.val)],
              err |-> ""]
      Unsigned(p) ==
        IF p.err # "" THEN [v |-> [n EXCEPT !.negative = FALSE, !.u64 = p.val], err |-> p.err]
        ELSE [v |-> [n EXCEPT !.negative = FALSE, !.u64 = p.val, !.parsed = TRUE,
                              !.f64 = FOfUint64(p.val)],
              err |-> ""]
  IN  IF Contains(b, Ord.dot) THEN Floated(parseFloat(b))
      ELSE IF Len(b) = 0 THEN [v |-> n, err |-> Panic]
      ELSE IF b[1] = Ord.minus THEN Negative(parseInt(b))
      ELSE Unsigned(parseUint(b))

\* parseNumber: the node after the call and the error ("panic": b[0] on an
\* empty valueBytes)
parseNumber(v, arch) ==
  LET b == v.valueBytes
      n == [v EXCEPT !.nparse = @ + 1]
      \* the three branches, p being what the conversion returned
      Floated(p) ==
        IF p.err # "" THEN [v |-> [n EXCEPT !.floated = TRUE, !.f64 = p.val], err |-> p.err]
        ELSE [v |-> [n EXCEPT !.floated = TRUE, !.f64 = p.val, !.parsed = TRUE,
                              !.negative = FNegative(p.val),
                              !.i64 = Int64OfF(p.val, arch),
                              !.u64 = Uint64OfF(p.val, arch)],
              err |-> ""]
      Negative(p) ==
        IF p.err # "" THEN [v |-> [n EXCEPT !.negative = TRUE, !.i64 = p.val], err |-> p.err]
        ELSE [v |-> [n EXCEPT !.negative = TRUE, !.i64 = p.val, !.parsed = TRUE,
                              !.u64 = p.val, !.f64 = FOfInt64(p.val)],
              err |-> ""]
      Unsigned(p) ==
        IF p.err # "" THEN [v |-> [n EXCEPT !.negative = FALSE, !.u64 = p.val], err |-> p.err]
        ELSE [v |-> [n EXCEPT !.negative = FALSE, !.u64 = p.val, !.parsed = TRUE,
                              !.i64 = p.val, !.f64 = FOfUint64(p.val)],
              err |-> ""]
  IN  IF Contains(b, Ord.dot) THEN Floated(parseFloat(b))
      ELSE IF Len(b) = 0 THEN [v |-> n, err |-> Panic]
      ELSE IF b[1] = Ord.minus THEN Negative(parseInt(b))
      ELSE Unsigned(parseUint(b))

newFromNumber(b) == [ret |-> [new EXCEPT !.valueType = "Number", !.valueBytes = b], err |-> ""]

ErrNilParameter == "nil parameter"
ErrRawBytesUnrecignized == "raw bytes unrecognized"
ErrNotValidBoolValue == "not a valid bool value"

newFromTrue(b) ==
  IF Len(b) # 4 \/ b # B(<<"t", "r", "u", "e">>) THEN [ret |-> NilV, err |-> ErrNotValidBoolValue]
  ELSE [ret |-> [new EXCEPT !.parsed = TRUE, !.valueType = "Boolean",
                            !.valueBytes = B(<<"t", "r", "u", "e">>), !.boolean = TRUE],
        err |-> ""]

newFromFalse(b) ==
  IF Len(b) # 5 \/ b # B(<<"f", "a", "l", "s", "e">>) THEN [ret |-> NilV, err |-> ErrNotValidBoolValue]
  ELSE [ret |-> [new EXCEPT !.parsed = TRUE, !.valueType = "Boolean",
                            !.valueBytes = B(<<"f", "a", "l", "s", "e">>), !.boolean = FALSE],
        err |-> ""]

newFromBool(b) ==
  IF b = B(<<"t", "r", "u", "e">>) THEN
    [ret |-> [new EXCEPT !.valueType = "Boolean", !.parsed = TRUE,
                         !.valueBytes = B(<<"t", "r", "u", "e">>), !.boolean = TRUE],
     err |-> ""]
  ELSE IF b = B(<<"f", "a", "l", "s", "e">>) THEN
    [ret |-> [new EXCEPT !.valueType = "Boolean", !.parsed = TRUE,
                         !.valueBytes = B(<<"f", "a", "l", "s", "e">>), !.boolean = FALSE],
     err |-> ""]
  ELSE [ret |-> NilV, err |-> ErrNotValidBoolValue]

newFromNull(b) ==
  IF Len(b) # 4 \/ b # B(<<"n", "u", "l", "l">>) THEN [ret |-> NilV, err |-> ErrNotValidBoolValue]
  ELSE [ret |-> [new EXCEPT !.parsed = TRUE, !.valueType = "Null"], err |-> ""]


(***************************************************************************)
(* The tokenizer of the library jsonparser, as newFromArray and            *)
(* newFromObject use it.  Offsets are absolute 0-based indices into b.     *)
(***************************************************************************)
ErrMalformedJson == "malformed json"
ErrMalformedString == "malformed string"
ErrMalformedArray == "malformed array"
ErrMalformedObject == "malformed object"
ErrMalformedValue == "malformed value"
ErrUnknownValueType == "unknown value type"
ErrMalformedStringEscape == "malformed string escape"

TokWhite == {Ord.sp, Ord.lf, Ord.cr, Ord.tab}

\* the first index >= from of a byte that is not white space, or -1
RECURSIVE nextToken(_, _)
nextToken(b, from) ==
  IF from >= Len(b) THEN -1
  ELSE IF At(b, from) \in TokWhite THEN nextToken(b, from + 1)
  ELSE from

\* the first index >= from of a byte that ends a bare token, or Len(b)
RECURSIVE tokenEnd(_, _)
tokenEnd(b, from) ==
  IF from >= Len(b) THEN Len(b)
  ELSE IF At(b, from) \in TokWhite \cup {Ord.comma, Ord.rbrace, Ord.rbrack} THEN from
  ELSE tokenEnd(b, from + 1)

\* the number of backslashes right before index j, not below index lo
RECURSIVE SlashesBefore(_, _, _)
SlashesBefore(b, j, lo) ==
  IF j - 1 < lo \/ At(b, j - 1) # Ord.bslash THEN 0 ELSE 1 + SlashesBefore(b, j - 1, lo)

\* the index of the quote closing the string whose content starts at from, or -1
RECURSIVE stringEnd(_, _, _)
stringEnd(b, from, j) ==
  IF j >= Len(b) THEN -1
  ELSE IF At(b, j) = Ord.quote /\ SlashesBefore(b, j, from) % 2 = 0 THEN j
  ELSE stringEnd(b, from, j + 1)

\* the index after the bracket closing the block opened at index j, or -1
RECURSIVE blockEnd(_, _, _, _, _)
blockEnd(b, j, level, open, close) ==
  IF j >= Len(b) THEN -1
  ELSE IF At(b, j) = Ord.quote THEN
    LET q == stringEnd(b, j + 1, j + 1)
    IN  IF q = -1 THEN -1 ELSE blockEnd(b, q + 1, level, open, close)
  ELSE IF At(b, j) = open THEN blockEnd(b, j + 1, level + 1, open, close)
  ELSE IF At(b, j) = close THEN
    (IF level - 1 = 0 THEN j + 1 ELSE blockEnd(b, j + 1, level - 1, open, close))
  ELSE blockEnd(b, j + 1, level, open, close)

Slice(b, from, to) == SubSeq(b, from + 1, to)

\* jsonparser.Get on b[from:]: the value (a string without its quotes), its
\* type, the index after it, and the error
Get(b, from) ==
  LET o == nextToken(b, from) IN
  IF o = -1 THEN [v |-> <<>>, t |-> "NotExist", off |-> from, err |-> ErrMalformedJson]
  ELSE IF At(b, o) = Ord.quote THEN
    LET q == stringEnd(b, o + 1, o + 1)
    IN  IF q = -1 THEN [v |-> <<>>, t |-> "String", off |-> o, err |-> ErrMalformedString]
        ELSE [v |-> Slice(b, o + 1, q), t |-> "String", off |-> q + 1, err |-> ""]
  ELSE IF At(b, o) = Ord.lbrack THEN
    LET q == blockEnd(b, o, 0, Ord.lbrack, Ord.rbrack)
    IN  IF q = -1 THEN [v |-> <<>>, t |-> "Array", off |-> o, err |-> ErrMalformedArray]
        ELSE [v |-> Slice(b, o, q), t |-> "Array", off |-> q, err |-> ""]
  ELSE IF At(b, o) = Ord.lbrace THEN
    LET q == blockEnd(b, o, 0, Ord.lbrace, Ord.rbrace)
    IN  IF q = -1 THEN [v |-> <<>>, t |-> "Object", off |-> o, err |-> ErrMalformedObject]
        ELSE [v |-> Slice(b, o, q), t |-> "Object", off |-> q, err |-> ""]
  ELSE
    LET q   == tokenEnd(b, o)
        val == Slice(b, o, q)
        c   == At(b, o)
    IN  IF c \in {Ord.t, Ord.f} THEN
          (IF val = B(<<"t", "r", "u", "e">>) \/ val = B(<<"f", "a", "l", "s", "e">>)
           THEN [v |-> val, t |-> "Boolean", off |-> q, err |-> ""]
           ELSE [v |-> <<>>, t |-> "Unknown", off |-> o, err |-> ErrUnknownValueType])
        ELSE IF c \in {Ord.u, Ord.n} THEN
          (IF val = B(<<"n", "u", "l", "l">>)
           THEN [v |-> val, t |-> "Null", off |-> q, err |-> ""]
           ELSE [v |-> <<>>, t |-> "Unknown", off |-> o, err |-> ErrUnknownValueType])
        ELSE IF IsDigit(c) \/ c = Ord.minus THEN
          [v |-> val, t |-> "Number", off |-> q, err |-> ""]
        ELSE [v |-> <<>>, t |-> "Unknown", off |-> o, err |-> ErrUnknownValueType]

\* jsonparser.ArrayEach: the elements handed to the callback, in order (the
\* error ArrayEach returns is dropped by newFromArray)
RECURSIVE ArrayLoop(_, _, _)
ArrayLoop(b, offset, toks) ==
  LET Rest(toks2, o) ==
        IF o = -1 THEN toks2
        ELSE IF At(b, o) = Ord.rbrack THEN toks2
        ELSE IF At(b, o) # Ord.comma THEN toks2
        ELSE ArrayLoop(b, o + 1, toks2)
      Got(g) ==
        IF g.err # "" \/ g.off = offset THEN toks
        ELSE Rest(IF g.t # "NotExist" THEN Append(toks, [v |-> g.v, t |-> g.t]) ELSE toks,
                  nextToken(b, g.off))
  IN  Got(Get(b, offset))

ArrayEach(b) ==
  LET nT == nextToken(b, 0) IN
  IF Len(b) = 0 \/ nT = -1 THEN <<>>
  ELSE LET nO == nextToken(b, nT + 1) IN
       IF nO = -1 THEN <<>>
       ELSE IF At(b, nO) = Ord.rbrack THEN <<>>
       ELSE ArrayLoop(b, nO, <<>>)


\* the standard UTF-8 encoding of a code point
StdUTF8(cp) ==
  IF cp <= 127 THEN <<cp>>
  ELSE IF cp <= 2047 THEN <<192 + (cp \div 64), 128 + (cp % 64)>>
  ELSE IF cp <= 65535
    THEN <<224 + (cp \div 4096), 128 + ((cp \div 64) % 64), 128 + (cp % 64)>>
  ELSE <<240 + (cp \div 262144), 128 + ((cp \div 4096) % 64),
         128 + ((cp \div 64) % 64), 128 + (cp % 64)>>

IsHex(c) == IsDigit(c) \/ (c >= Ord.a /\ c <= Ord.f) \/ (c >= Ord.A /\ c <= Ord.F)

HexVal(c) == IF IsDigit(c) THEN c - Ord.d0 ELSE IF c >= Ord.a THEN c - Ord.a + 10 ELSE c - Ord.A + 10

\* the code unit written as XXXX at b[j..j+3] (1-based), or -1
CodeUnit(b, j) ==
  IF j + 3 > Len(b) \/ \E d \in 0..3 : ~ IsHex(b[j + d]) THEN -1
  ELSE HexVal(b[j]) * 4096 + HexVal(b[j + 1]) * 256 + HexVal(b[j + 2]) * 16 + HexVal(b[j + 3])

\* jsonparser.Unescape, applied by ObjectEach to a key that holds a backslash
RECURSIVE Unescape(_, _, _)
Unescape(b, j, out) ==
  IF j > Len(b) THEN [out |-> out, err |-> ""]
  ELSE IF b[j] # Ord.bslash THEN Unescape(b, j + 1, Append(out, b[j]))
  ELSE IF j + 1 > Len(b) THEN [out |-> <<>>, err |-> ErrMalformedStringEscape]
  ELSE LET c == b[j + 1] IN
    IF c \in {Ord.quote, Ord.bslash, Ord.slash} THEN Unescape(b, j + 2, Append(out, c))
    ELSE IF c = Ord.b THEN Unescape(b, j + 2, Append(out, Ord.bs))
    ELSE IF c = Ord.f THEN Unescape(b, j + 2, Append(out, Ord.ff))
    ELSE IF c = Ord.n THEN Unescape(b, j + 2, Append(out, Ord.lf))
    ELSE IF c = Ord.r THEN Unescape(b, j + 2, Append(out, Ord.cr))
    ELSE IF c = Ord.t THEN Unescape(b, j + 2, Append(out, Ord.tab))
    ELSE IF c = Ord.u THEN
      LET hi == CodeUnit(b, j + 2) IN
      IF hi = -1 THEN [out |-> <<>>, err |-> ErrMalformedStringEscape]
      ELSE IF hi < 55296 \/ hi > 57343 THEN Unescape(b, j + 6, out \o StdUTF8(hi))
      ELSE IF hi > 56319 \/ j + 7 > Len(b) \/ b[j + 6] # Ord.bslash \/ b[j + 7] # Ord.u
        THEN [out |-> <<>>, err |-> ErrMalformedStringEscape]
      ELSE LET lo == CodeUnit(b, j + 8) IN
        IF lo < 56320 \/ lo > 57343 THEN [out |-> <<>>, err |-> ErrMalformedStringEscape]
        ELSE Unescape(b, j + 12, out \o StdUTF8((hi - 55296) * 1024 + (lo - 56320) + 65536))
    ELSE [out |-> <<>>, err |-> ErrMalformedStringEscape]

(***************************************************************************)
(* The string conversions of the package: the content of a string token is *)
(* handed to the unescaper of utf8.go.                                     *)
(***************************************************************************)
ErrNotValidString == "not a valid string value"

\* the bytes of a string without its quotes, unescaped
parseStringNoQuote(b, dir) ==
  LET Ret(st) == IF st.err # "" THEN [str |-> <<>>, err |-> st.err]
                 ELSE [str |-> Slice(st.b, 0, st.sectEnd), err |-> ""]
  IN  Ret(parseStrFromBytes(b, 0, Len(b), dir))

\* the white space Unmarshal skips
Whitespace == {Ord.sp, Ord.cr, Ord.lf, Ord.tab, Ord.bs}

\* a quoted string, starting at its opening quote and followed by nothing but
\* white space
parseString(b, dir) ==
  LET q == stringEnd(b, 1, 1) IN
  IF q = -1 THEN [str |-> <<>>, bytes |-> <<>>, err |-> ErrNotValidString]
  ELSE IF \E j \in (q + 1)..(Len(b) - 1) : At(b, j) \notin Whitespace
    THEN [str |-> <<>>, bytes |-> <<>>, err |-> ErrNotValidString]
  ELSE LET Ret(p) == [str |-> p.str, bytes |-> p.str, err |-> p.err]
       IN  Ret(parseStringNoQuote(Slice(b, 1, q), dir))

\* o.children.object[key] = child
setToObjectChildren(o, key, child) ==
  IF \E j \in 1..Len(o.object) : o.object[j].k = key
  THEN [o EXCEPT !.object = [j \in 1..Len(o.object) |->
                    IF o.object[j].k = key THEN [k |-> key, v |-> child] ELSE o.object[j]]]
  ELSE [o EXCEPT !.object = Append(@, [k |-> key, v |-> child])]

\* the String node built by the callbacks of newFromArray and newFromObject
StringChild(s) == [new EXCEPT !.parsed = TRUE, !.valueType = "String", !.str = s]

ErrInvalidValueType == "invalid value type"

(***************************************************************************)
(* jsonvalue.go: newFromArray, newFromObject and Unmarshal.  A result is   *)
(* the pair [ret, err] the Go function returns.                            *)
(***************************************************************************)
RECURSIVE newFromArray(_, _)
RECURSIVE newFromObject(_, _)

\* the child node and the error of the cases of the two callbacks' switch that
\* assign "child, err = ..."
ChildOf(tok, dir) ==
  IF tok.t = "Object" THEN newFromObject(tok.v, dir)
  ELSE IF tok.t = "Array" THEN newFromArray(tok.v, dir)
  ELSE IF tok.t = "Number" THEN newFromNumber(tok.v)
  ELSE IF tok.t = "Boolean" THEN newFromBool(tok.v)
  ELSE IF tok.t = "Null" THEN newFromNull(tok.v)
  ELSE [ret |-> NilV, err |-> ErrInvalidValueType]

\* the callback newFromArray hands to ArrayEach; acc is [o, err], the array
\* node and the err of the enclosing function.  In the String case the error
\* of parseStringNoQuote is assigned to a new err local to the case, and the
\* callback returns with the enclosing err still nil.
ArrayCallback(acc, tok, dir) ==
  IF acc.err # "" THEN acc
  ELSE IF tok.t = "String" THEN
    LET Str(p) == IF p.err # "" THEN acc
                  ELSE [acc EXCEPT !.o.array = Append(@, StringChild(p.str))]
    IN  Str(parseStringNoQuote(tok.v, dir))
  ELSE
    LET Child(r) == IF r.err # "" THEN [acc EXCEPT !.err = r.err]
                    ELSE [acc EXCEPT !.o.array = Append(@, r.ret)]
    IN  Child(ChildOf(tok, dir))

RECURSIVE ArrayFold(_, _, _)
ArrayFold(acc, toks, dir) ==
  IF toks = <<>> THEN acc
  ELSE ArrayFold(ArrayCallback(acc, Head(toks), dir), Tail(toks), dir)

newFromArray(b, dir) ==
  LET Ret(acc) == IF acc.err # "" THEN [ret |-> NilV, err |-> acc.err]
                  ELSE [ret |-> acc.o, err |-> ""]
  IN  Ret(ArrayFold([o |-> newArray, err |-> ""], ArrayEach(b), dir))

\* the callback newFromObject hands to ObjectEach: the object node after the
\* call and the error the callback returns
ObjectCallback(o, k, tok, dir) ==
  LET Str(key, p) ==
        IF p.err # "" THEN [o |-> o, err |-> p.err]
        ELSE [o |-> setToObjectChildren(o, key.str, StringChild(p.str)), err |-> ""]
      Child(key, r) ==
        IF r.err # "" THEN [o |-> o, err |-> r.err]
        ELSE [o |-> setToObjectChildren(o, key.str, r.ret), err |-> ""]
      Keyed(key) ==
        IF key.err # "" THEN [o |-> o, err |-> key.err]
        ELSE IF tok.t = "String" THEN Str(key, parseStringNoQuote(tok.v, dir))
        ELSE Child(key, ChildOf(tok, dir))
  IN  Keyed(parseStringNoQuote(k, dir))

\* the loop of jsonparser.ObjectEach from the key at offset on, calling the
\* callback for each member and stopping at its first error
RECURSIVE ObjectLoop(_, _, _, _)
ObjectLoop(b, offset, o, dir) ==
  IF offset >= Len(b) THEN [o |-> o, err |-> ErrMalformedObject]
  ELSE IF At(b, offset) = Ord.rbrace THEN [o |-> o, err |-> ""]
  ELSE IF At(b, offset) # Ord.quote THEN [o |-> o, err |-> ErrMalformedObject]
  ELSE
    LET q == stringEnd(b, offset + 1, offset + 1) IN
    IF q = -1 THEN [o |-> o, err |-> ErrMalformedJson]
    ELSE
      LET raw == Slice(b, offset + 1, q)
          c   == nextToken(b, q + 1)
          \* after the callback returned r for the member whose value ends at off
          Called(r, off) ==
            LET n == nextToken(b, off)
            IN  IF r.err # "" THEN r
                ELSE IF n = -1 THEN [o |-> r.o, err |-> ErrMalformedArray]
                ELSE IF At(b, n) = Ord.rbrace THEN [o |-> r.o, err |-> ""]
                ELSE IF At(b, n) # Ord.comma THEN [o |-> r.o, err |-> ErrMalformedObject]
                ELSE LET m == nextToken(b, n + 1)
                     IN  IF m = -1 THEN [o |-> r.o, err |-> ErrMalformedArray]
                         ELSE ObjectLoop(b, m, r.o, dir)
          \* with the key un and the value g
          Member(un, g) ==
            IF g.err # "" THEN [o |-> o, err |-> g.err]
            ELSE Called(ObjectCallback(o, un.out, [v |-> g.v, t |-> g.t], dir), g.off)
          Key(un) ==
            IF un.err # "" THEN [o |-> o, err |-> un.err]
            ELSE IF c = -1 THEN [o |-> o, err |-> ErrMalformedJson]
            ELSE IF At(b, c) # Ord.colon THEN [o |-> o, err |-> ErrMalformedJson]
            ELSE Member(un, Get(b, c + 1))
      IN  Key(IF Contains(raw, Ord.bslash) THEN Unescape(raw, 1, <<>>)
              ELSE [out |-> raw, err |-> ""])

\* jsonparser.ObjectEach with the callback of newFromObject
ObjectEach(b, o, dir) ==
  LET s0 == nextToken(b, 0) IN
  IF s0 = -1 THEN [o |-> o, err |-> ErrMalformedObject]
  ELSE IF At(b, s0) # Ord.lbrace THEN [o |-> o, err |-> ErrMalformedObject]
  ELSE LET s1 == nextToken(b, s0 + 1) IN
       IF s1 = -1 THEN [o |-> o, err |-> ErrMalformedJson]
       ELSE IF At(b, s1) = Ord.rbrace THEN [o |-> o, err |-> ""]
       ELSE ObjectLoop(b, s1, o, dir)

newFromObject(b, dir) ==
  LET Ret(r) == IF r.err # "" THEN [ret |-> NilV, err |-> r.err]
                ELSE [ret |-> r.o, err |-> ""]
  IN  Ret(ObjectEach(b, newObject, dir))

\* the index of the first byte of b that Unmarshal does not skip, or -1
RECURSIVE FirstSignificant(_, _)
FirstSignificant(b, j) ==
  IF j >= Len(b) THEN -1
  ELSE IF At(b, j) \in Whitespace THEN FirstSignificant(b, j + 1)
  ELSE j

\* UnmarshalNumber leaving the conversion to the first access, as the
\* callbacks of newFromArray and newFromObject do
UnmarshalNumberLazy(b, arch) == newFromNumber(b)

\* UnmarshalNumber with "return" in place of "return nil, err" after parseNumber
UnmarshalNumberBareReturn(b, arch) ==
  LET Parsed(p) == [ret |-> p.v, err |-> p.err]
      Made(r) == IF r.err # "" THEN r ELSE Parsed(parseNumber(r.ret, arch))
  IN  Made(newFromNumber(b))

\* Unmarshal's case of a digit or '-'
UnmarshalNumber(b, arch) ==
  LET Parsed(p) == IF p.err # "" THEN [ret |-> NilV, err |-> p.err]
                   ELSE [ret |-> p.v, err |-> ""]
      Made(r) == IF r.err # "" THEN r ELSE Parsed(parseNumber(r.ret, arch))
  IN  Made(newFromNumber(b))

\* Unmarshal's case of a quote
UnmarshalString(b, dir) ==
  LET Ret(p) ==
        IF p.err # "" THEN [ret |-> NilV, err |-> p.err]
        ELSE [ret |-> [new EXCEPT !.valueType = "String", !.str = p.str,
                                  !.valueBytes = p.bytes, !.parsed = TRUE],
              err |-> ""]
  IN  Ret(parseString(b, dir))

\* the switch of Unmarshal on the first byte c that is not white space; rest
\* is the input from that byte on
UnmarshalDispatch(c, rest, bld) ==
  IF c = Ord.lbrace THEN newFromObject(rest, bld.memcpy)
  ELSE IF c = Ord.lbrack THEN newFromArray(rest, bld.memcpy)
  ELSE IF IsDigit(c) \/ c = Ord.minus THEN UnmarshalNumber(rest, bld.conv)
  ELSE IF c = Ord.quote THEN UnmarshalString(rest, bld.memcpy)
  ELSE IF c = Ord.t THEN newFromTrue(rest)
  ELSE IF c = Ord.f THEN newFromFalse(rest)
  ELSE IF c = Ord.n THEN newFromNull(rest)
  ELSE [ret |-> NilV, err |-> ErrRawBytesUnrecignized]

\* Unmarshal without its first test, of a nil or empty b
UnmarshalNoNilTest(b, bld) ==
  LET j == FirstSignificant(b, 0) IN
  IF j = -1 THEN [ret |-> NilV, err |-> ErrRawBytesUnrecignized]
  ELSE UnmarshalDispatch(At(b, j), Slice(b, j, Len(b)), bld)

Unmarshal(b, bld) ==
  IF Len(b) = 0 THEN [ret |-> NilV, err |-> ErrNilParameter]
  ELSE LET j == FirstSignificant(b, 0) IN
       IF j = -1 THEN [ret |-> NilV, err |-> ErrRawBytesUnrecignized]
       ELSE UnmarshalDispatch(At(b, j), Slice(b, j, Len(b)), bld)

(***************************************************************************)
(* jsonvalue.go: the predicates and the numeric accessors.  Each takes the *)
(* node and gives the node after the call and what the call gives back:    *)
(*   [kind, b, n, f]                                                       *)
(* kind is "ret" for a normal return and "panic" for a run-time panic; b   *)
(* is the boolean, n the integer (its bits) and f the float returned.      *)
(***************************************************************************)
Out0 == [kind |-> "none", b |-> FALSE, n |-> <<>>, f |-> F0]

RetB(x) == [Out0 EXCEPT !.kind = "ret", !.b = x]

RetN(x) == [Out0 EXCEPT !.kind = "ret", !.n = x]

RetF(x) == [Out0 EXCEPT !.kind = "ret", !.f = x]

Panicked == [Out0 EXCEPT !.kind = "panic"]

\* "if false == v.status.parsed { v.parseNumber() }": the node after it and the
\* error of parseNumber, "" when it did not run
Materialize(v, arch) ==
  IF ~ v.parsed THEN parseNumber(v, arch) ELSE [v |-> v, err |-> ""]

IsNumber(v, arch) == [v |-> v, out |-> RetB(v.valueType = "Number")]

\* IsFloat without "if false == v.status.parsed { v.parseNumber() }"
IsFloatNoParse(v, arch) ==
  IF v.valueType # "Number" THEN [v |-> v, out |-> RetB(FALSE)]
  ELSE [v |-> v, out |-> RetB(v.floated)]

IsFloat(v, arch) ==
  IF v.valueType # "Number" THEN [v |-> v, out |-> RetB(FALSE)]
  ELSE LET Ret(m) ==
             IF m.err = Panic THEN [v |-> m.v, out |-> Panicked]
             ELSE [v |-> m.v, out |-> RetB(m.v.floated)]
       IN  Ret(Materialize(v, arch))

IsInteger(v, arch) ==
  IF v.valueType # "Number" THEN [v |-> v, out |-> RetB(FALSE)]
  ELSE LET Ret(m) ==
             IF m.err = Panic THEN [v |-> m.v, out |-> Panicked]
             ELSE IF m.err # "" THEN [v |-> m.v, out |-> RetB(FALSE)]
             ELSE [v |-> m.v, out |-> RetB(~ m.v.floated)]
       IN  Ret(Materialize(v, arch))

IsNegative(v, arch) ==
  IF v.valueType # "Number" THEN [v |-> v, out |-> RetB(FALSE)]
  ELSE LET Ret(m) ==
             IF m.err = Panic THEN [v |-> m.v, out |-> Panicked]
             ELSE [v |-> m.v, out |-> RetB(m.v.negative)]
       IN  Ret(Materialize(v, arch))

IsPositive(v, arch) ==
  IF v.valueType # "Number" THEN [v |-> v, out |-> RetB(FALSE)]
  ELSE LET Ret(m) ==
             IF m.err = Panic THEN [v |-> m.v, out |-> Panicked]
             ELSE IF m.err # "" THEN [v |-> m.v, out |-> RetB(FALSE)]
             ELSE [v |-> m.v, out |-> RetB(~ m.v.negative)]
       IN  Ret(Materialize(v, arch))

\* GreaterThanInt64Max comparing with >= in place of >
GreaterThanInt64MaxOrEqual(v, arch) ==
  IF v.valueType # "Number" THEN [v |-> v, out |-> RetB(FALSE)]
  ELSE LET Ret(m) ==
             IF m.err = Panic THEN [v |-> m.v, out |-> Panicked]
             ELSE IF m.v.negative THEN [v |-> m.v, out |-> RetB(FALSE)]
             ELSE [v |-> m.v, out |-> RetB(m.v.u64 = MaxInt64 \/ Gt64(m.v.u64, MaxInt64))]
       IN  Ret(Materialize(v, arch))

GreaterThanInt64Max(v, arch) ==
  IF v.valueType # "Number" THEN [v |-> v, out |-> RetB(FALSE)]
  ELSE LET Ret(m) ==
             IF m.err = Panic THEN [v |-> m.v, out |-> Panicked]
             ELSE IF m.v.negative THEN [v |-> m.v, out |-> RetB(FALSE)]
             ELSE [v |-> m.v, out |-> RetB(Gt64(m.v.u64, MaxInt64))]
       IN  Ret(Materialize(v, arch))

\* NewInt(0), NewInt64(0): a Number node holding 0
NewIntZero ==
  [new EXCEPT !.valueType = "Number", !.valueBytes = B(<<"d0">>), !.parsed = TRUE,
              !.f64 = FOfInt64(Z64)]

\* the node the numeric accessors read in place of a node that is no Number;
\* err is "panic" when parseNumber panics
getNumberFromNotNumberValue(v, arch) ==
  IF v.valueType # "String" THEN [v |-> NewIntZero, err |-> ""]
  ELSE LET Ret(p) == IF p.err = Panic THEN [v |-> NilV, err |-> Panic]
                     ELSE IF p.err # "" THEN [v |-> NewIntZero, err |-> ""]
                     ELSE [v |-> p.v, err |-> ""]
       IN  Ret(parseNumber(newFromNumber(v.str).ret, arch))

\* the low 32 bits
Low32(x) == <<x[1], x[2]>>

\* the field a numeric accessor returns, converted to its result type
Field(name, v) ==
  IF name = "Int" THEN RetN(v.i64)
  ELSE IF name = "Uint" THEN RetN(v.u64)
  ELSE IF name = "Int64" THEN RetN(v.i64)
  ELSE IF name = "Uint64" THEN RetN(v.u64)
  ELSE IF name = "Int32" THEN RetN(Low32(v.i64))
  ELSE IF name = "Uint32" THEN RetN(Low32(v.u64))
  ELSE RetF(v.f64)

NumericNames == {"Int", "Uint", "Int64", "Uint64", "Int32", "Uint32", "Float64", "Float32"}

\* Int, Uint, Int64, Uint64, Int32, Uint32, Float64, Float32: the eight bodies
\* differ only in the field returned and its conversion
Numeric(name, v, arch) ==
  LET \* the call forwarded to the node g that stands for v
      Forwarded(m) == IF m.err = Panic THEN [v |-> v, out |-> Panicked]
                      ELSE [v |-> v, out |-> Field(name, m.v)]
      Other(g) == IF g.err = Panic THEN [v |-> v, out |-> Panicked]
                  ELSE Forwarded(Materialize(g.v, arch))
      Ret(m) == IF m.err = Panic THEN [v |-> m.v, out |-> Panicked]
                ELSE [v |-> m.v, out |-> Field(name, m.v)]
  IN  IF v.valueType # "Number" THEN Other(getNumberFromNotNumberValue(v, arch))
      ELSE Ret(Materialize(v, arch))

PredicateNames == {"IsNumber", "IsFloat", "IsInteger", "IsNegative", "IsPositive",
                   "GreaterThanInt64Max"}

CallNames == PredicateNames \cup NumericNames

\* the call of the predicate or accessor name on the node v
Call(name, v, arch) ==
  IF name = "IsNumber" THEN IsNumber(v, arch)
  ELSE IF name = "IsFloat" THEN IsFloat(v, arch)
  ELSE IF name = "IsInteger" THEN IsInteger(v, arch)
  ELSE IF name = "IsNegative" THEN IsNegative(v, arch)
  ELSE IF name = "IsPositive" THEN IsPositive(v, arch)
  ELSE IF name = "GreaterThanInt64Max" THEN GreaterThanInt64Max(v, arch)
  ELSE Numeric(name, v, arch)

\* the nodes of a tree a call is made on: 0 is the root, j >= 1 its j-th
\* element or member
Selectors(root) ==
  IF root.valueType = "Array" THEN 0..Len(root.array)
  ELSE IF root.valueType = "Object" THEN 0..Len(root.object)
  ELSE {0}

NodeAt(root, sel) ==
  IF sel = 0 THEN root
  ELSE IF root.valueType = "Array" THEN root.array[sel]
  ELSE root.object[sel].v

WithNodeAt(root, sel, n) ==
  IF sel = 0 THEN n
  ELSE IF root.valueType = "Array" THEN [root EXCEPT !.array[sel] = n]
  ELSE [root EXCEPT !.object[sel].v = n]

(***************************************************************************)
(* jsonvalue.go: String, the textual form of a node.  The members of an    *)
(* object are written in the order the model keeps them in (Go ranges over *)
(* the map in an order of its own).                                        *)
(***************************************************************************)
\* the texts ss with sep between them
RECURSIVE JoinWith(_, _)
JoinWith(ss, sep) ==
  IF Len(ss) = 0 THEN <<>>
  ELSE IF Len(ss) = 1 THEN ss[1]
  ELSE ss[1] \o sep \o JoinWith(Tail(ss), sep)

formatBool(x) == IF x THEN B(<<"t", "r", "u", "e">>) ELSE B(<<"f", "a", "l", "s", "e">>)

RECURSIVE String(_)

\* String whose switch gives "null" in the default case too
StringDefaultNull(v) ==
  IF v = NilV THEN <<>>
  ELSE IF v.valueType = "Number" THEN v.valueBytes
  ELSE IF v.valueType = "String" THEN v.str
  ELSE IF v.valueType = "Boolean" THEN formatBool(v.boolean)
  ELSE IF v.valueType = "Object" THEN
    B(<<"lbrace">>)
      \o JoinWith([j \in 1..Len(v.object) |->
                     v.object[j].k \o B(<<"colon", "sp">>) \o String(v.object[j].v)],
                  B(<<"comma", "sp">>))
      \o B(<<"rbrace">>)
  ELSE IF v.valueType = "Array" THEN
    B(<<"lbrack">>)
      \o JoinWith([j \in 1..Len(v.array) |-> String(v.array[j])], B(<<"comma", "sp">>))
      \o B(<<"rbrack">>)
  ELSE B(<<"n", "u", "l", "l">>)

String(v) ==
  IF v = NilV THEN <<>>
  ELSE IF v.valueType = "Null" THEN B(<<"n", "u", "l", "l">>)
  ELSE IF v.valueType = "Number" THEN v.valueBytes
  ELSE IF v.valueType = "String" THEN v.str
  ELSE IF v.valueType = "Boolean" THEN formatBool(v.boolean)
  ELSE IF v.valueType = "Object" THEN
    B(<<"lbrace">>)
      \o JoinWith([j \in 1..Len(v.object) |->
                     v.object[j].k \o B(<<"colon", "sp">>) \o String(v.object[j].v)],
                  B(<<"comma", "sp">>))
      \o B(<<"rbrace">>)
  ELSE IF v.valueType = "Array" THEN
    B(<<"lbrack">>)
      \o JoinWith([j \in 1..Len(v.array) |-> String(v.array[j])], B(<<"comma", "sp">>))
      \o B(<<"rbrack">>)
  ELSE <<>>

(***************************************************************************)
(* Set(child).At(path...), Insert(child).Before/After(path...), RangeArray *)
(* and Marshal.  jsonvalue.go calls RangeArray and its documentation uses  *)
(* the others; their code is in other files of the package, and they are   *)
(* written here from docs/en/03_set.md, from the tests and from the        *)
(* specification.  A path is a sequence of selectors, Key(k) or Idx(i); a  *)
(* result is [ret, err], ret being the receiver after the call.            *)
(***************************************************************************)
ErrNotFound == "target path not found"
ErrPathTypeMismatch == "selector does not match the type of the value"
ErrIndexOutOfRange == "index out of range"
ErrInvalidArrayCreationIndex == "index of an array that does not exist is not zero"
ErrValueUninitialized == "jsonvalue instance is not initialized"

Key(k) == [t |-> "key", k |-> k, i |-> 0]

Idx(i) == [t |-> "idx", k |-> <<>>, i |-> i]

\* the position of the member k of the object o, 0 when o has none
MemberPos(o, k) ==
  IF \E j \in 1..Len(o.object) : o.object[j].k = k
  THEN CHOOSE j \in 1..Len(o.object) : o.object[j].k = k
  ELSE 0

RECURSIVE Vivify(_, _)

\* Vivify that creates an array for an index that is not zero as well
VivifyAnyIndex(path, child) ==
  IF path = <<>> THEN [ret |-> child, err |-> ""]
  ELSE
    LET s == Head(path)
        In(r) == IF r.err # "" THEN [ret |-> NilV, err |-> r.err]
                 ELSE IF s.t = "key"
                   THEN [ret |-> setToObjectChildren(newObject, s.k, r.ret), err |-> ""]
                 ELSE [ret |-> [newArray EXCEPT !.array = <<r.ret>>], err |-> ""]
    IN  In(Vivify(Tail(path), child))

\* the structure Set..At creates for the selectors path at a position that
\* does not exist, with child at its end
Vivify(path, child) ==
  IF path = <<>> THEN [ret |-> child, err |-> ""]
  ELSE
    LET s == Head(path)
        In(r) == IF r.err # "" THEN [ret |-> NilV, err |-> r.err]
                 ELSE IF s.t = "key"
                   THEN [ret |-> setToObjectChildren(newObject, s.k, r.ret), err |-> ""]
                 ELSE [ret |-> [newArray EXCEPT !.array = <<r.ret>>], err |-> ""]
    IN  IF s.t = "idx" /\ s.i # 0
        THEN [ret |-> NilV, err |-> ErrInvalidArrayCreationIndex]
        ELSE In(Vivify(Tail(path), child))

RECURSIVE SetAt(_, _, _)

\* Set..At that treats a position on the way as one that does not exist:
\* what is there is replaced by a new structure
SetAtAnew(v, path, child) ==
  LET s == Head(path)
      rest == Tail(path)
      Failed(e) == [ret |-> v, err |-> e]
      Into(j, r) ==
        IF r.err # "" THEN Failed(r.err)
        ELSE IF s.t = "key" THEN [ret |-> [v EXCEPT !.object[j].v = r.ret], err |-> ""]
        ELSE [ret |-> [v EXCEPT !.array[j] = r.ret], err |-> ""]
      Created(r) ==
        IF r.err # "" THEN Failed(r.err)
        ELSE IF s.t = "key" THEN [ret |-> setToObjectChildren(v, s.k, r.ret), err |-> ""]
        ELSE [ret |-> [v EXCEPT !.array = Append(@, r.ret)], err |-> ""]
  IN  IF s.t = "key" THEN
        IF v.valueType # "Object" THEN Failed(ErrPathTypeMismatch)
        ELSE IF MemberPos(v, s.k) # 0 THEN Into(MemberPos(v, s.k), Vivify(rest, child))
        ELSE Created(Vivify(rest, child))
      ELSE
        IF v.valueType # "Array" THEN Failed(ErrPathTypeMismatch)
        ELSE IF s.i >= 0 /\ s.i < Len(v.array) THEN Into(s.i + 1, Vivify(rest, child))
        ELSE IF s.i = Len(v.array) THEN Created(Vivify(rest, child))
        ELSE Failed(ErrIndexOutOfRange)

\* Set..At that appends for every index from the length of the array on
SetAtBeyond(v, path, child) ==
  LET s == Head(path)
      rest == Tail(path)
      Failed(e) == [ret |-> v, err |-> e]
      Into(j, r) ==
        IF r.err # "" THEN Failed(r.err)
        ELSE IF s.t = "key" THEN [ret |-> [v EXCEPT !.object[j].v = r.ret], err |-> ""]
        ELSE [ret |-> [v EXCEPT !.array[j] = r.ret], err |-> ""]
      Existing(j, old) ==
        IF rest = <<>> THEN Into(j, [ret |-> child, err |-> ""])
        ELSE Into(j, SetAt(old, rest, child))
      Created(r) ==
        IF r.err # "" THEN Failed(r.err)
        ELSE IF s.t = "key" THEN [ret |-> setToObjectChildren(v, s.k, r.ret), err |-> ""]
        ELSE [ret |-> [v EXCEPT !.array = Append(@, r.ret)], err |-> ""]
  IN  IF s.t = "key" THEN
        IF v.valueType # "Object" THEN Failed(ErrPathTypeMismatch)
        ELSE IF MemberPos(v, s.k) # 0
          THEN Existing(MemberPos(v, s.k), v.object[MemberPos(v, s.k)].v)
        ELSE Created(Vivify(rest, child))
      ELSE
        IF v.valueType # "Array" THEN Failed(ErrPathTypeMismatch)
        ELSE IF s.i >= 0 /\ s.i < Len(v.array) THEN Existing(s.i + 1, v.array[s.i + 1])
        ELSE IF s.i >= Len(v.array) THEN Created(Vivify(rest, child))
        ELSE Failed(ErrIndexOutOfRange)

\* v.Set(child).At(path...): path is not empty.  On an error v is as before.
SetAt(v, path, child) ==
  LET s == Head(path)
      rest == Tail(path)
      Failed(e) == [ret |-> v, err |-> e]
      \* the member or element at position j (1-based) exists
      Into(j, r) ==
        IF r.err # "" THEN Failed(r.err)
        ELSE IF s.t = "key" THEN [ret |-> [v EXCEPT !.object[j].v = r.ret], err |-> ""]
        ELSE [ret |-> [v EXCEPT !.array[j] = r.ret], err |-> ""]
      Existing(j, old) ==
        IF rest = <<>> THEN Into(j, [ret |-> child, err |-> ""])
        ELSE Into(j, SetAt(old, rest, child))
      \* it does not exist
      Created(r) ==
        IF r.err # "" THEN Failed(r.err)
        ELSE IF s.t = "key" THEN [ret |-> setToObjectChildren(v, s.k, r.ret), err |-> ""]
        ELSE [ret |-> [v EXCEPT !.array = Append(@, r.ret)], err |-> ""]
  IN  IF s.t = "key" THEN
        IF v.valueType # "Object" THEN Failed(ErrPathTypeMismatch)
        ELSE IF MemberPos(v, s.k) # 0
          THEN Existing(MemberPos(v, s.k), v.object[MemberPos(v, s.k)].v)
        ELSE Created(Vivify(rest, child))
      ELSE
        IF v.valueType # "Array" THEN Failed(ErrPathTypeMismatch)
        ELSE IF s.i >= 0 /\ s.i < Len(v.array) THEN Existing(s.i + 1, v.array[s.i + 1])
        ELSE IF s.i = Len(v.array) THEN Created(Vivify(rest, child))
        ELSE Failed(ErrIndexOutOfRange)

\* the sequence a with x put at the position pos (0-based)
InsertSeq(a, pos, x) ==
  [j \in 1..(Len(a) + 1) |-> IF j <= pos THEN a[j] ELSE IF j = pos + 1 THEN x ELSE a[j - 1]]

RECURSIVE InsertAt(_, _, _, _)

\* Insert that resolves a negative index from the end of the array after
\* the insertion: length + 1 + index
InsertAtFromNewEnd(v, path, child, after) ==
  LET s == Head(path)
      rest == Tail(path)
      n == Len(v.array)
      Failed(e) == [ret |-> v, err |-> e]
      r == IF s.i < 0 THEN n + 1 + s.i ELSE s.i
      Into(j, res) ==
        IF res.err # "" THEN Failed(res.err)
        ELSE IF s.t = "key" THEN [ret |-> [v EXCEPT !.object[j].v = res.ret], err |-> ""]
        ELSE [ret |-> [v EXCEPT !.array[j] = res.ret], err |-> ""]
  IN  IF s.t = "key" THEN
        IF rest = <<>> \/ v.valueType # "Object" THEN Failed(ErrPathTypeMismatch)
        ELSE IF MemberPos(v, s.k) = 0 THEN Failed(ErrNotFound)
        ELSE Into(MemberPos(v, s.k), InsertAt(v.object[MemberPos(v, s.k)].v, rest, child, after))
      ELSE
        IF v.valueType # "Array" THEN Failed(ErrPathTypeMismatch)
        ELSE IF rest # <<>> THEN
          IF s.i < 0 \/ s.i >= n THEN Failed(ErrNotFound)
          ELSE Into(s.i + 1, InsertAt(v.array[s.i + 1], rest, child, after))
        ELSE IF s.i < 0 - n \/ s.i > n - 1 THEN Failed(ErrIndexOutOfRange)
        ELSE [ret |-> [v EXCEPT !.array = InsertSeq(@, IF after /\ r < n THEN r + 1 ELSE r, child)],
              err |-> ""]

\* v.Insert(child).Before(path...) and .After(path...): the last selector is
\* an index of an array that exists, the ones before it lead to the array
InsertAt(v, path, child, after) ==
  LET s == Head(path)
      rest == Tail(path)
      n == Len(v.array)
      Failed(e) == [ret |-> v, err |-> e]
      r == IF s.i < 0 THEN n + s.i ELSE s.i
      Into(j, res) ==
        IF res.err # "" THEN Failed(res.err)
        ELSE IF s.t = "key" THEN [ret |-> [v EXCEPT !.object[j].v = res.ret], err |-> ""]
        ELSE [ret |-> [v EXCEPT !.array[j] = res.ret], err |-> ""]
  IN  IF s.t = "key" THEN
        IF rest = <<>> \/ v.valueType # "Object" THEN Failed(ErrPathTypeMismatch)
        ELSE IF MemberPos(v, s.k) = 0 THEN Failed(ErrNotFound)
        ELSE Into(MemberPos(v, s.k), InsertAt(v.object[MemberPos(v, s.k)].v, rest, child, after))
      ELSE
        IF v.valueType # "Array" THEN Failed(ErrPathTypeMismatch)
        ELSE IF rest # <<>> THEN
          IF s.i < 0 \/ s.i >= n THEN Failed(ErrNotFound)
          ELSE Into(s.i + 1, InsertAt(v.array[s.i + 1], rest, child, after))
        ELSE IF s.i < 0 - n \/ s.i > n - 1 THEN Failed(ErrIndexOutOfRange)
        ELSE [ret |-> [v EXCEPT !.array = InsertSeq(@, IF after THEN r + 1 ELSE r, child)],
              err |-> ""]

\* a callback of RangeArray is [nil, stops]: nil says that it is the nil func,
\* stops is the set of the indices the callback returns false for

\* v.RangeArray(callback): the indices the callback is called with, in the
\* order of the calls
RECURSIVE RangeFrom(_, _, _)
RangeFrom(n, callback, j) ==
  IF j >= n THEN <<>>
  ELSE IF j \notin callback.stops THEN <<j>> \o RangeFrom(n, callback, j + 1)
  ELSE <<j>>

\* RangeArray that goes on after the callback returned false
RangeArrayToTheEnd(v, callback) ==
  IF v.valueType # "Array" \/ callback.nil THEN <<>>
  ELSE [j \in 1..Len(v.array) |-> j - 1]

RangeArray(v, callback) ==
  IF v.valueType # "Array" \/ callback.nil THEN <<>>
  ELSE RangeFrom(Len(v.array), callback, 0)

Quoted(b) == B(<<"quote">>) \o b \o B(<<"quote">>)

\* the upper-case hexadecimal digit of n < 16
HexDigit(n) == IF n < 10 THEN Ord.d0 + n ELSE Ord.A + (n - 10)

\* \uXXXX for the code unit u
EscapeUnit(u) ==
  B(<<"bslash", "u">>)
    \o <<HexDigit(u \div 4096), HexDigit((u \div 256) % 16), HexDigit((u \div 16) % 16), HexDigit(u % 16)>>

\* a code point in the escaped form: \uXXXX, a surrogate pair above 0xFFFF
EscapeRune(cp) ==
  IF cp <= 65535 THEN EscapeUnit(cp)
  ELSE EscapeUnit(55296 + ((cp - 65536) \div 1024)) \o EscapeUnit(56320 + ((cp - 65536) % 1024))

IsCont(s, j) == j <= Len(s) /\ s[j] >= 128 /\ s[j] < 192

\* the rune that starts at s[j] as [cp, le]; a byte that starts no UTF-8
\* sequence is the replacement character U+FFFD of length 1
RuneAt(s, j) ==
  LET c == s[j] IN
  IF c < 128 THEN [cp |-> c, le |-> 1]
  ELSE IF c >= 194 /\ c < 224 /\ IsCont(s, j + 1)
    THEN [cp |-> (c - 192) * 64 + (s[j + 1] - 128), le |-> 2]
  ELSE IF c >= 224 /\ c < 240 /\ IsCont(s, j + 1) /\ IsCont(s, j + 2)
    THEN [cp |-> (c - 224) * 4096 + (s[j + 1] - 128) * 64 + (s[j + 2] - 128), le |-> 3]
  ELSE IF c >= 240 /\ c < 245 /\ IsCont(s, j + 1) /\ IsCont(s, j + 2) /\ IsCont(s, j + 3)
    THEN [cp |-> (c - 240) * 262144 + (s[j + 1] - 128) * 4096 + (s[j + 2] - 128) * 64
                   + (s[j + 3] - 128),
          le |-> 4]
  ELSE [cp |-> 65533, le |-> 1]

\* the escaped form of one rune of a string
EscapedRune(cp) ==
  IF cp = Ord.quote THEN B(<<"bslash", "quote">>)
  ELSE IF cp = Ord.bslash THEN B(<<"bslash", "bslash">>)
  ELSE IF cp = Ord.slash THEN B(<<"bslash", "slash">>)
  ELSE IF cp = Ord.bs THEN B(<<"bslash", "b">>)
  ELSE IF cp = Ord.ff THEN B(<<"bslash", "f">>)
  ELSE IF cp = Ord.tab THEN B(<<"bslash", "t">>)
  ELSE IF cp = Ord.cr THEN B(<<"bslash", "r">>)
  ELSE IF cp = Ord.lf THEN B(<<"bslash", "n">>)
  ELSE IF cp \in {Ord.lt, Ord.gt, Ord.amp} \/ cp < 32 \/ cp > 127 THEN EscapeRune(cp)
  ELSE <<cp>>

\* the contents of a string as Marshal writes them between the quotes
RECURSIVE EscapeString(_, _)
EscapeString(s, j) ==
  IF j > Len(s) THEN <<>>
  ELSE EscapedRune(RuneAt(s, j).cp) \o EscapeString(s, j + RuneAt(s, j).le)

\* the option of Marshal: Opt{OmitNull: ...}; no option is Opt{}
Opts == [OmitNull : BOOLEAN]

RECURSIVE MarshalText(_, _)

\* MarshalText that leaves out the null elements of arrays as well
MarshalTextOmitElements(v, opt) ==
  LET Kept(n) == ~ (opt.OmitNull /\ n.valueType = "Null") IN
  IF v.valueType = "Null" THEN B(<<"n", "u", "l", "l">>)
  ELSE IF v.valueType = "Boolean" THEN formatBool(v.boolean)
  ELSE IF v.valueType = "Number" THEN v.valueBytes
  ELSE IF v.valueType = "String" THEN Quoted(EscapeString(v.str, 1))
  ELSE IF v.valueType = "Object" THEN
    LET kept == SelectSeq(v.object, LAMBDA m : Kept(m.v))
    IN  B(<<"lbrace">>)
          \o JoinWith([j \in 1..Len(kept) |->
                         Quoted(EscapeString(kept[j].k, 1)) \o B(<<"colon">>)
                           \o MarshalText(kept[j].v, opt)],
                      B(<<"comma">>))
          \o B(<<"rbrace">>)
  ELSE
    LET kept == SelectSeq(v.array, Kept)
    IN  B(<<"lbrack">>)
          \o JoinWith([j \in 1..Len(kept) |-> MarshalText(kept[j], opt)], B(<<"comma">>))
          \o B(<<"rbrack">>)

\* the text of a node that is initialized
MarshalText(v, opt) ==
  IF v.valueType = "Null" THEN B(<<"n", "u", "l", "l">>)
  ELSE IF v.valueType = "Boolean" THEN formatBool(v.boolean)
  ELSE IF v.valueType = "Number" THEN v.valueBytes
  ELSE IF v.valueType = "String" THEN Quoted(EscapeString(v.str, 1))
  ELSE IF v.valueType = "Object" THEN
    LET kept == SelectSeq(v.object, LAMBDA m : ~ (opt.OmitNull /\ m.v.valueType = "Null"))
    IN  B(<<"lbrace">>)
          \o JoinWith([j \in 1..Len(kept) |->
                         Quoted(EscapeString(kept[j].k, 1)) \o B(<<"colon">>)
                           \o MarshalText(kept[j].v, opt)],
                      B(<<"comma">>))
          \o B(<<"rbrace">>)
  ELSE B(<<"lbrack">>)
         \o JoinWith([j \in 1..Len(v.array) |-> MarshalText(v.array[j], opt)], B(<<"comma">>))
         \o B(<<"rbrack">>)

\* v.Marshal(opt) and v.MarshalString(opt) give [out, err, kind]: the text, or
\* an error and no text for a node that is not initialized
Marshal(v, opt) ==
  IF v.valueType = "NotExist" THEN [kind |-> "ret", out |-> <<>>, err |-> ErrValueUninitialized]
  ELSE [kind |-> "ret", out |-> MarshalText(v, opt), err |-> ""]

MarshalString(v, opt) == Marshal(v, opt)

\* v.MustMarshal(opt) and v.MustMarshalString(opt): panic(err) on an error
MustMarshal(v, opt) ==
  LET Ret(r) == IF r.err # "" THEN [r EXCEPT !.kind = "panic"] ELSE r
  IN  Ret(Marshal(v, opt))

MustMarshalString(v, opt) == MustMarshal(v, opt)

(***************************************************************************)
(* The state.                                                              *)
(*   build   what the build decides: conv, how a float outside the range   *)
(*           converts to an integer; memcpy, the direction C.memcpy        *)
(*           copies in                                                     *)
(*   dsrc    the span given to parseStrFromBytes: its units, the buffer    *)
(*           holding it, offset and length                                 *)
(*   dec     the decoder state of the running parseStrFromBytes            *)
(*   dpc     "idle", "run", "ok" (returned resLen, nil), "fail"            *)
(*   input   the bytes given to Unmarshal: a text (core) between leading   *)
(*           and trailing white space (lead, trail)                        *)
(*   res     what Unmarshal returned: [ret, err]                           *)
(*   pc      "idle", "start" (Unmarshal not yet called), "done",           *)
(*           "crashed" (a call panicked), "end" (the last call returned)   *)
(*   last    the last call on the tree: the node called on or the path,    *)
(*           the name, and what it gave back                               *)
(*   nops    the number of Set and Insert calls made on the tree           *)
(***************************************************************************)
(* jsonvalue.go: the caseless index of an object.  v.children.lowerCaseKeys *)
(* is a function from the lowercase forms to the sets of keys.  A key is   *)
(* its bytes.                                                              *)
(***************************************************************************)
\* strings.ToLower on ASCII
ToLower(k) == [j \in 1..Len(k) |-> IF k[j] >= Ord.A /\ k[j] <= Ord.Z THEN k[j] + 32 ELSE k[j]]

\* make(map[string]map[string]struct{})
NoKeys == [lowerK \in {} |-> {}]

addCaselessKey(m, k) ==
  LET lowerK == ToLower(k)
      keys   == IF lowerK \in DOMAIN m THEN m[lowerK] ELSE {}
  IN  [L \in DOMAIN m \cup {lowerK} |-> IF L = lowerK THEN keys \cup {k} ELSE m[L]]

\* a variant that keeps the bucket of the last key
delCaselessKeyKeepBucket(m, k) ==
  LET lowerK == ToLower(k) IN
  IF lowerK \notin DOMAIN m THEN m
  ELSE [m EXCEPT ![lowerK] = m[lowerK] \ {k}]

delCaselessKey(m, k) ==
  LET lowerK == ToLower(k) IN
  IF lowerK \notin DOMAIN m THEN m
  ELSE LET keys == m[lowerK] \ {k}
       IN  IF keys = {} THEN [L \in DOMAIN m \ {lowerK} |-> m[L]]
           ELSE [m EXCEPT ![lowerK] = keys]

(***************************************************************************)
VARIABLES build, dsrc, dec, dpc, input, res, pc, last, nops, lowerCaseKeys, added

vars == <<build, dsrc, dec, dpc, input, res, pc, last, nops, lowerCaseKeys, added>>

Builds == [conv : {"wrap", "sat"}, memcpy : {"fwd", "bwd"}]

NoCall == [sel |-> 0, name |-> "", out |-> Out0]

NoSpan == [units |-> <<>>, b |-> <<>>, offset |-> 0, length |-> 0]

NoResult == [ret |-> NilV, err |-> ""]

NoInput == [lead |-> <<>>, core |-> <<>>, trail |-> <<>>]

\* the caseless index of an object on which no key has been added
CaselessIdle ==
  /\ lowerCaseKeys = NoKeys
  /\ added = {}

DecoderIdle ==
  /\ dsrc = NoSpan
  /\ dec = DecStart(<<>>, 0, 0)
  /\ dpc = "idle"

ParserIdle ==
  /\ input = NoInput
  /\ res = NoResult
  /\ pc = "idle"
  /\ last = NoCall
  /\ nops = 0

(***************************************************************************)
(* The spans decoded: sequences of at most MaxUnits units, and the sample  *)
(* text of the escape-fidelity property.  A unit is                        *)
(*   [kind, src, cp]                                                       *)
(* kind "plain": one ASCII byte; "esc": backslash and a character, cp the  *)
(* character it stands for; "uni": \uXXXX, cp = XXXX; "pair": a surrogate  *)
(* pair of \u escapes, cp the code point; "raw": the UTF-8 bytes of cp.    *)
(***************************************************************************)
Plain(c) == [kind |-> "plain", src |-> <<Ord[c]>>, cp |-> Ord[c]]

Esc(c, out) == [kind |-> "esc", src |-> <<Ord.bslash, Ord[c]>>, cp |-> Ord[out]]

Uni(hex, cp) == [kind |-> "uni", src |-> B(<<"bslash", "u">>) \o B(hex), cp |-> cp]

Pair(hi, lo, cp) ==
  [kind |-> "pair",
   src |-> B(<<"bslash", "u">>) \o B(hi) \o B(<<"bslash", "u">>) \o B(lo), cp |-> cp]

Raw(cp) == [kind |-> "raw", src |-> StdUTF8(cp), cp |-> cp]

SimpleEscapes ==
  { Esc("quote", "quote"), Esc("bslash", "bslash"), Esc("slash", "slash"),
    Esc("b", "bs"), Esc("f", "ff"), Esc("n", "lf"), Esc("r", "cr"), Esc("t", "tab") }

UnicodeEscapes ==
  { Uni(<<"d0", "d0", "d3", "d0">>, 48),    Uni(<<"d0", "d0", "d7", "F">>, 127),
    Uni(<<"d0", "d0", "d8", "d0">>, 128),   Uni(<<"d0", "d7", "F", "F">>, 2047),
    Uni(<<"d0", "d8", "d0", "d0">>, 2048),  Uni(<<"d4", "e", "d1", "d6">>, 19990) }

RawRunes == { Raw(233), Raw(19990), Raw(128512) }

\* the first pair \uD800\uDC00, \uD87E\uDC04 and the last pair \uDBFF\uDFFF, each
\* with the code point
\* ((hi - 0xD800) << 10) + (lo - 0xDC00) + 0x10000
SurrogatePairs ==
  { Pair(<<"D", "d8", "d0", "d0">>, <<"D", "C", "d0", "d0">>, 65536),
    Pair(<<"D", "d8", "d7", "E">>, <<"D", "C", "d0", "d4">>, 194564),
    Pair(<<"D", "B", "F", "F">>, <<"D", "F", "F", "F">>, 1114111) }

\* the units every decoder of JSON strings accepts (and \')
GoodUnits ==
  {Plain("a"), Esc("apos", "apos")}
    \cup SurrogatePairs \cup SimpleEscapes \cup UnicodeEscapes \cup RawRunes

\* bytes that are no unit of a JSON string
Bad(names) == [kind |-> "bad", src |-> B(names), cp |-> -1]

\* \uD800 alone: a high surrogate, a pair only if a low surrogate follows
HighAlone == Bad(<<"bslash", "u", "D", "d8", "d0", "d0">>)
\* \uDC00 alone: a low surrogate
LowAlone == Bad(<<"bslash", "u", "D", "C", "d0", "d0">>)
\* \uD800\u0041 and \uD800\uE000: the second escape is no low surrogate
HighThenBelow ==
  Bad(<<"bslash", "u", "D", "d8", "d0", "d0", "bslash", "u", "d0", "d0", "d4", "d1">>)
HighThenAbove ==
  Bad(<<"bslash", "u", "D", "d8", "d0", "d0", "bslash", "u", "E", "d0", "d0", "d0">>)
\* \u00g0, \u00Z0 and \u00-0
NonHexEscapes ==
  { Bad(<<"bslash", "u", "d0", "d0", "g", "d0">>),
    Bad(<<"bslash", "u", "d0", "d0", "Z", "d0">>),
    Bad(<<"bslash", "u", "d0", "d0", "minus", "d0">>) }
\* a backslash alone, and \u004
LoneBackslash == Bad(<<"bslash">>)
ShortUnicode == Bad(<<"bslash", "u", "d0", "d0", "d4">>)

BadUnits ==
  {HighAlone, LowAlone, HighThenBelow, HighThenAbove, LoneBackslash, ShortUnicode}
    \cup NonHexEscapes

Units == GoodUnits \cup BadUnits

\* "\"\\\/\f\t\r\n\b0" without its quotes
SampleUnits ==
  << Esc("quote", "quote"), Esc("bslash", "bslash"), Esc("slash", "slash"),
     Esc("f", "ff"), Esc("t", "tab"), Esc("r", "cr"), Esc("n", "lf"), Esc("b", "bs"),
     Uni(<<"d0", "d0", "d3", "d0">>, 48) >>

\* \nabc
EscapeThenText == << Esc("n", "lf"), Plain("a"), Plain("b"), Plain("c") >>

UnitSeqs == SeqsUpTo(Units, MaxUnits) \cup {SampleUnits, EscapeThenText}

SrcOf(units) == Flatten([j \in 1..Len(units) |-> units[j].src])

\* the span alone in its buffer, or between two quotes
Span(units, quoted) ==
  LET src == SrcOf(units) IN
  IF quoted THEN [units |-> units, b |-> <<Ord.quote>> \o src \o <<Ord.quote>>,
                  offset |-> 1, length |-> Len(src)]
  ELSE [units |-> units, b |-> src, offset |-> 0, length |-> Len(src)]

(***************************************************************************)
(* parseStrFromBytes, one iteration of its loop at a time.                 *)
(***************************************************************************)
InitDecode ==
  /\ build \in Builds
  /\ CaselessIdle
  /\ \E us \in UnitSeqs, quoted \in BOOLEAN : dsrc = Span(us, quoted)
  /\ dec = DecStart(dsrc.b, dsrc.offset, dsrc.length)
  /\ dpc = "run"
  /\ ParserIdle

\* the loop body: the byte at i is handled; an error ends the call
DecodeLoop ==
  /\ dpc = "run"
  /\ dec.i < dec.end
  /\ dec' = LoopBody(dec, build.memcpy)
  /\ dpc' = IF dec'.err # "" THEN "fail" ELSE "run"
  /\ UNCHANGED <<lowerCaseKeys, added, build, dsrc, input, res, pc, last, nops>>

\* the loop is over: return sectEnd - offset, nil
DecodeReturn ==
  /\ dpc = "run"
  /\ dec.i >= dec.end
  /\ dpc' = "ok"
  /\ UNCHANGED <<lowerCaseKeys, added, build, dsrc, dec, input, res, pc, last, nops>>

NextDecode == DecodeLoop \/ DecodeReturn

SpecDecode == InitDecode /\ [][NextDecode]_vars

\* resLen and the decoded bytes after a successful return
ResLen == dec.sectEnd - dsrc.offset

Decoded == Slice(dec.b, dsrc.offset, dec.sectEnd)

(***************************************************************************)
(* The texts given to Unmarshal.                                           *)
(***************************************************************************)
\* the decimal digits ds as text
D(ds) == [j \in 1..Len(ds) |-> Ord.d0 + ds[j]]

Int64MaxText == D(<<9, 2, 2, 3, 3, 7, 2, 0, 3, 6, 8, 5, 4, 7, 7, 5, 8, 0, 7>>)

Int64MaxPlus1Text == D(<<9, 2, 2, 3, 3, 7, 2, 0, 3, 6, 8, 5, 4, 7, 7, 5, 8, 0, 8>>)

Uint64MaxText == D(<<1, 8, 4, 4, 6, 7, 4, 4, 0, 7, 3, 7, 0, 9, 5, 5, 1, 6, 1, 5>>)

Uint64MaxPlus1Text == D(<<1, 8, 4, 4, 6, 7, 4, 4, 0, 7, 3, 7, 0, 9, 5, 5, 1, 6, 1, 6>>)

TenPow19Text == D(<<1, 0, 0, 0, 0, 0, 0, 0, 0, 0, 0, 0, 0, 0, 0, 0, 0, 0, 0, 0>>)

LiteralTexts ==
  { B(<<"t", "r", "u", "e">>), B(<<"f", "a", "l", "s", "e">>), B(<<"n", "u", "l", "l">>),
    B(<<"t", "r", "U", "E">>), B(<<"n", "u", "l">>), B(<<"f">>) }

\* well-formed numerals
NumeralTexts ==
  { D(<<0>>), D(<<1>>), D(<<4, 2>>), B(<<"minus", "d1">>), B(<<"minus", "d0">>),
    B(<<"d1", "dot", "d5">>), B(<<"minus", "d1", "dot", "d5">>),
    B(<<"minus", "d0", "dot", "d5">>), B(<<"d0", "dot", "d0">>) }

\* texts that start as a number and are none
BadNumberTexts ==
  { B(<<"d1", "a">>), B(<<"d1", "dot", "a">>), B(<<"minus">>), B(<<"minus", "d1", "a">>),
    B(<<"d1", "dot", "d5", "dot">>) }

\* unsigned integer texts around 2^63 and 2^64
BoundaryTexts ==
  { Int64MaxText, Int64MaxPlus1Text, Uint64MaxText, Uint64MaxPlus1Text, TenPow19Text }

\* numbers with a decimal point or a sign around the same boundaries
BigNumberTexts ==
  { Int64MaxPlus1Text \o B(<<"dot", "d0">>), TenPow19Text \o B(<<"dot", "d0">>),
    Uint64MaxPlus1Text \o B(<<"dot", "d5">>), Int64MaxText \o B(<<"dot", "d5">>),
    B(<<"minus">>) \o Int64MaxPlus1Text, B(<<"minus">>) \o Uint64MaxText,
    B(<<"minus">>) \o TenPow19Text \o B(<<"dot", "d0">>) }


\* the contents of string texts that cannot be unescaped
BadStringBodies == { B(<<"bslash", "x">>), B(<<"bslash", "u", "d0", "d0", "x", "minus">>) }

\* the contents of the other string texts
StringBodies ==
  { <<>>, B(<<"a">>), B(<<"d1">>), B(<<"minus", "d1">>), B(<<"d1", "dot", "d5">>),
    B(<<"d1", "a">>), B(<<"minus">>), B(<<"dot">>), D(<<4, 2>>), B(<<"bslash", "n">>),
    B(<<"bslash", "u", "d0", "d0", "d3", "d1">>), Uint64MaxText }

StringTexts ==
  { Quoted(b) : b \in StringBodies \cup BadStringBodies }
    \cup { B(<<"quote">>), B(<<"quote", "a">>), B(<<"quote", "a", "quote", "x">>) }

\* "[" elems "]" with the elements separated by commas
RECURSIVE Joined(_)
Joined(elems) ==
  IF Len(elems) = 0 THEN <<>>
  ELSE IF Len(elems) = 1 THEN elems[1]
  ELSE elems[1] \o B(<<"comma">>) \o Joined(Tail(elems))

ArrayOf(elems) == B(<<"lbrack">>) \o Joined(elems) \o B(<<"rbrack">>)

\* an object of one member
ObjectOf(key, val) == B(<<"lbrace">>) \o key \o B(<<"colon">>) \o val \o B(<<"rbrace">>)

BadString == Quoted(B(<<"bslash", "x">>))

KeyK == Quoted(B(<<"k">>))

\* the arrays and objects with a string element, key or member that cannot be
\* unescaped
BadElementTexts ==
  { ArrayOf(<<BadString>>), ArrayOf(<<D(<<1>>), BadString, D(<<2>>)>>),
    ArrayOf(<<Quoted(B(<<"a">>)), BadString>>),
    ObjectOf(KeyK, BadString), ObjectOf(BadString, D(<<1>>)) }

ArrayTexts ==
  { ArrayOf(<<>>), ArrayOf(<<D(<<1>>)>>), ArrayOf(<<D(<<1>>), D(<<2>>)>>),
    ArrayOf(<<B(<<"d1", "a">>)>>), ArrayOf(<<B(<<"d1", "dot", "a">>)>>),
    ArrayOf(<<B(<<"minus", "d1", "a">>)>>), ArrayOf(<<B(<<"minus">>)>>),
    ArrayOf(<<B(<<"d1", "dot", "d5">>)>>), ArrayOf(<<B(<<"minus", "d1">>)>>),
    ArrayOf(<<Quoted(B(<<"a">>))>>), ArrayOf(<<Quoted(<<>>)>>),
    ArrayOf(<<Quoted(B(<<"d1">>)), D(<<1>>)>>),
    ArrayOf(<<ArrayOf(<<>>)>>), ArrayOf(<<B(<<"lbrace", "rbrace">>)>>),
    ArrayOf(<<B(<<"t", "r", "u", "e">>), B(<<"n", "u", "l", "l">>)>>),
    ArrayOf(<<Uint64MaxText>>), ArrayOf(<<Int64MaxPlus1Text \o B(<<"dot", "d0">>)>>),
    ArrayOf(<<B(<<"x">>)>>), B(<<"lbrack">>), B(<<"lbrack", "d1">>) }

ObjectTexts ==
  { B(<<"lbrace", "rbrace">>), ObjectOf(KeyK, D(<<1>>)), ObjectOf(KeyK, Quoted(B(<<"a">>))),
    ObjectOf(KeyK, Quoted(<<>>)), ObjectOf(KeyK, B(<<"d1", "a">>)),
    ObjectOf(KeyK, ArrayOf(<<>>)), ObjectOf(KeyK, B(<<"t", "r", "u", "e">>)),
    ObjectOf(KeyK, B(<<"n", "u", "l", "l">>)), ObjectOf(KeyK, B(<<"x">>)),
    ObjectOf(KeyK, Uint64MaxText), B(<<"lbrace">>), B(<<"lbrace", "d1", "rbrace">>) }

\* texts whose first byte starts no value, and the empty text
OtherTexts == { <<>>, B(<<"x">>), B(<<"bslash", "bslash">>), B(<<"rbrack">>) }

Texts ==
  LiteralTexts \cup NumeralTexts \cup BadNumberTexts \cup BoundaryTexts \cup BigNumberTexts
    \cup StringTexts \cup ArrayTexts \cup ObjectTexts \cup BadElementTexts \cup OtherTexts

\* the runs of white space put around a text
Pads == SeqsUpTo(Whitespace, MaxPad)

InputBytes == input.lead \o input.core \o input.trail

(***************************************************************************)
(* Unmarshal of a text between runs of white space.                        *)
(***************************************************************************)
Init ==
  /\ build \in Builds
  /\ CaselessIdle
  /\ \E l \in Pads, c \in Texts, t \in Pads : input = [lead |-> l, core |-> c, trail |-> t]
  /\ res = NoResult
  /\ pc = "start"
  /\ last = NoCall
  /\ nops = 0
  /\ DecoderIdle

DoUnmarshal ==
  /\ pc = "start"
  /\ res' = Unmarshal(InputBytes, build)
  /\ pc' = "done"
  /\ UNCHANGED <<lowerCaseKeys, added, build, dsrc, dec, dpc, input, last, nops>>

Next == DoUnmarshal

Spec == Init /\ [][Next]_vars

(***************************************************************************)
(* Unmarshal of a text, then predicate and accessor calls on the nodes of  *)
(* the tree it returned.                                                   *)
(***************************************************************************)
InitAccess ==
  /\ build \in Builds
  /\ CaselessIdle
  /\ \E c \in Texts : input = [lead |-> <<>>, core |-> c, trail |-> <<>>]
  /\ res = NoResult
  /\ pc = "start"
  /\ last = NoCall
  /\ nops = 0
  /\ DecoderIdle

\* one call of a predicate or an accessor on the root or on one of its
\* children; a panic ends the program
CallAccessor ==
  /\ pc = "done"
  /\ res.err = ""
  /\ \E sel \in Selectors(res.ret), name \in CallNames :
       LET Returned(r) ==
             /\ res' = [res EXCEPT !.ret = WithNodeAt(res.ret, sel, r.v)]
             /\ last' = [sel |-> sel, name |-> name, out |-> r.out]
             /\ pc' = IF r.out.kind = "panic" THEN "crashed" ELSE "done"
       IN  /\ NodeAt(res.ret, sel).nparse < MaxParse
           /\ Returned(Call(name, NodeAt(res.ret, sel), build.conv))
  /\ UNCHANGED <<lowerCaseKeys, added, build, dsrc, dec, dpc, input, nops>>

NextAccess == DoUnmarshal \/ CallAccessor

SpecAccess == InitAccess /\ [][NextAccess]_vars

(***************************************************************************)
(* Properties of the unescaper, checked under SpecDecode.                  *)
(***************************************************************************)
DecodeEnded == dpc \in {"ok", "fail"}

\* what a span of escapes stands for: each unit's code point in UTF-8
Expected(units) == Flatten([j \in 1..Len(units) |-> StdUTF8(units[j].cp)])

OnlyUnits(S) == \A j \in 1..Len(dsrc.units) : dsrc.units[j] \in S

\* C2: a span made of the escapes \" \\ \/ \b \f \n \r \t and of \uXXXX
\* escapes outside the surrogate range decodes, without error, to the single
\* character of each simple escape and the standard UTF-8 encoding of each
\* XXXX (1 byte up to 0x7F, 2 up to 0x7FF, 3 above); the sample text decodes
\* to its 9 characters.
C2_EscapeFidelity ==
  (DecodeEnded /\ OnlyUnits(SimpleEscapes \cup UnicodeEscapes))
    => (dpc = "ok" /\ Decoded = Expected(dsrc.units))

\* C3: a span of well-formed UTF-8 sequences without a backslash decodes
\* without error, the bytes are left unchanged and the length returned is the
\* length of the span.
C3_PlainUtf8Unchanged ==
  (DecodeEnded /\ OnlyUnits({Plain("a")} \cup RawRunes))
    => (dpc = "ok" /\ dec.b = dsrc.b /\ ResLen = dsrc.length)

\* C21: a span of ASCII bytes other than backslash and of the escapes
\* \" \\ \/ \' \b \f \n \r \t decodes without error to the characters its
\* units stand for, in their order: a byte after an escape is part of the
\* output as a byte before one is; \nabc decodes to LF, a, b, c.
C21_InOrderConcatenation ==
  (DecodeEnded /\ OnlyUnits({Plain("a"), Plain("b"), Plain("c"), Esc("apos", "apos")}
                              \cup SimpleEscapes))
    => (dpc = "ok" /\ Decoded = Expected(dsrc.units))

\* the units before unit j are units of a JSON string, so that unit j starts
\* where the decoder starts an iteration
GoodBefore(j) == \A k \in 1..(j - 1) : dsrc.units[k] \in GoodUnits

\* the index in the buffer of the first byte of unit j
StartOf(j) == dsrc.offset + Len(SrcOf(SubSeq(dsrc.units, 1, j - 1)))

\* unit j starts with a high surrogate that no low surrogate follows
UnpairedHigh(j) ==
  \/ dsrc.units[j] \in {HighThenBelow, HighThenAbove}
  \/ /\ dsrc.units[j] = HighAlone
     /\ (j = Len(dsrc.units) \/ dsrc.units[j + 1] # LowAlone)

\* C22: the decode of a span in which a \uXXXX escape with XXXX in
\* 0xD800..0xDBFF is followed by a \u escape below 0xDC00 or above 0xDFFF,
\* by something that is no \u escape, or by the end of the span, fails.
C22_HighSurrogateNeedsLow ==
  (DecodeEnded /\ \E j \in 1..Len(dsrc.units) : GoodBefore(j) /\ UnpairedHigh(j))
    => dpc = "fail"

\* C23: the decode of a span with a \u escape one of whose four characters
\* is no hexadecimal digit (g, Z, -) fails; when that escape is the first
\* unit nothing has been written.
C23_NonHexDigitFails ==
  (DecodeEnded /\ \E j \in 1..Len(dsrc.units) :
                    GoodBefore(j) /\ dsrc.units[j] \in NonHexEscapes)
    => /\ dpc = "fail"
       /\ dsrc.units[1] \in NonHexEscapes
            => (dec.b = dsrc.b /\ dec.sectEnd = dsrc.offset)

\* C24: no byte outside the span is read, whatever the span; and the decode
\* of a span that ends with a lone backslash or with \u and fewer than four
\* characters fails with an error.
C24_TruncatedEscapeFails ==
  /\ ~ dec.oob
  /\ dec.err # Panic
  /\ (/\ DecodeEnded
      /\ dsrc.units # <<>>
      /\ GoodBefore(Len(dsrc.units))
      /\ dsrc.units[Len(dsrc.units)] \in {LoneBackslash, ShortUnicode})
       => dpc = "fail"

\* C25: the decode of a span in which a \uXXXX escape with XXXX in
\* 0xDC00..0xDFFF stands where a unit starts (it is not the second half of
\* a pair) fails, whatever follows the escape.
C25_LoneLowSurrogateFails ==
  (DecodeEnded /\ \E j \in 1..Len(dsrc.units) :
                    GoodBefore(j) /\ dsrc.units[j] = LowAlone)
    => dpc = "fail"

\* C26: an iteration that starts on a surrogate pair \uHHHH\uLLLL returns no
\* error, advances the read index by 12 and the write index by 4, and the
\* four bytes written are the UTF-8 encoding of
\* ((hi - 0xD800) << 10) + (lo - 0xDC00) + 0x10000.
C26_SurrogatePairCombined ==
  [][\A j \in 1..Len(dsrc.units) :
       (/\ dpc = "run"
        /\ GoodBefore(j)
        /\ dsrc.units[j] \in SurrogatePairs
        /\ dec.i = StartOf(j))
         => /\ dec'.err = ""
            /\ dec'.i = dec.i + 12
            /\ dec'.sectEnd = dec.sectEnd + 4
            /\ Slice(dec'.b, dec.sectEnd, dec.sectEnd + 4) = StdUTF8(dsrc.units[j].cp)]_vars

\* a pair has been decoded after an escape that made the output shorter
C26_PairAfterEscapeSeen ==
  /\ dpc = "ok"
  /\ dsrc.units = << Esc("n", "lf"), Pair(<<"D", "B", "F", "F">>, <<"D", "F", "F", "F">>, 1114111) >>
  /\ Decoded = <<10, 244, 143, 191, 191>>

\* C27: in every state of the decoder the write index is at most the read
\* index and the bytes from the read index on are those of the input; the
\* length returned on success lies between 0 and the length of the span.
C27_WriteBehindRead ==
  /\ dsrc.offset <= dec.sectEnd
  /\ dec.sectEnd <= dec.i
  /\ \A q \in dec.i..(Len(dec.b) - 1) : At(dec.b, q) = At(dsrc.b, q)
  /\ dpc = "ok" => (0 <= ResLen /\ ResLen <= dsrc.length)

\* a decode has ended with fewer bytes written than read
C27_ShorterOutputSeen ==
  /\ dpc = "ok"
  /\ dec.sectEnd < dec.i
  /\ 0 < ResLen /\ ResLen < dsrc.length
  /\ \E j \in 1..Len(dsrc.units) : dsrc.units[j].kind = "raw"

(***************************************************************************)
(* Properties of Unmarshal, checked under Spec.                            *)
(***************************************************************************)
\* what Unmarshal returns for the text alone, without the white space
Clean == Unmarshal(input.core, build)

\* C4: a text that Unmarshal accepts on its own is accepted between leading
\* and trailing white space (space, CR, LF, TAB, BS) as well, with the same
\* value returned, for a value of any kind.
C4_SurroundingWhitespace ==
  (pc = "done" /\ Clean.err = "") => res = Clean

\* C5: for an array with a string element that cannot be unescaped, and for
\* an object with such a key or such a string member, Unmarshal returns an
\* error and no value.
C5_BadStringAborts ==
  (pc = "done" /\ input.core \in BadElementTexts) => (res.err # "" /\ res.ret = NilV)

\* no byte but white space in the input: the texts never start with one
WhitespaceOnly == input.core = <<>>

\* the bytes a value starts with
ValueStarts ==
  {Ord.lbrace, Ord.lbrack, Ord.minus, Ord.quote, Ord.t, Ord.f, Ord.n}
    \cup {Ord.d0 + d : d \in 0..9}

Unrecognized == WhitespaceOnly \/ input.core[1] \notin ValueStarts

\* C6 as stated: Unmarshal fails with ErrRawBytesUnrecignized for an empty
\* input, for an input of white space only, and for an input whose first byte
\* after the white space starts no value.
C6_UnrecognizedAsStated ==
  (pc = "done" /\ Unrecognized) => (res.err = ErrRawBytesUnrecignized /\ res.ret = NilV)

\* C6 amended: Unmarshal fails with ErrNilParameter for an empty input, and
\* with ErrRawBytesUnrecignized for a non-empty input of white space only and
\* for an input whose first byte after the white space starts no value.
C6_UnrecognizedOrNil ==
  (pc = "done" /\ Unrecognized) =>
    /\ res.ret = NilV
    /\ res.err = IF InputBytes = <<>> THEN ErrNilParameter ELSE ErrRawBytesUnrecignized

C6_EmptyInputSeen ==
  pc = "done" /\ InputBytes = <<>> /\ res.err = ErrNilParameter

Callee == NodeAt(res.ret, last.sel)

\* the call returned the number 0
ReturnedZero ==
  /\ last.out.kind = "ret"
  /\ \A j \in 1..Len(last.out.n) : last.out.n[j] = 0
  /\ FIsZero(last.out.f)

\* the call returned the small natural number n, as an integer or as a float
ReturnedNat(n) ==
  /\ last.out.kind = "ret"
  /\ IF last.name \in {"Float64", "Float32"}
     THEN last.out.f.ip = FromNat(n) /\ ~ last.out.f.neg /\ last.out.f.frac = <<>>
     ELSE last.out.n = (IF last.name \in {"Int32", "Uint32"} THEN Low32(FromNat(n))
                        ELSE FromNat(n))

\* string contents that are no numeral
NotNumeralBodies == { <<>>, B(<<"a">>), B(<<"d1", "a">>), B(<<"minus">>), B(<<"dot">>), <<Ord.lf>> }

\* C1: a numeric accessor returns normally on every node; it returns 0 on a
\* Null, Boolean, Object or Array node; on a String node it returns the number
\* the text is a numeral of (1 for "1", 42 for "42") and 0 for a text that is
\* no numeral, the empty string included.
C1_NumericAccessorsTotal ==
  last.name \in NumericNames =>
    /\ last.out.kind = "ret"
    /\ Callee.valueType \in {"Null", "Boolean", "Object", "Array"} => ReturnedZero
    /\ (Callee.valueType = "String" /\ Callee.str \in NotNumeralBodies) => ReturnedZero
    /\ (Callee.valueType = "String" /\ Callee.str = D(<<1>>)) => ReturnedNat(1)
    /\ (Callee.valueType = "String" /\ Callee.str = D(<<4, 2>>)) => ReturnedNat(42)

\* the texts of C8: unsigned integers from 2^63 to 2^64-1, and up to 2^63-1
AboveInt64Texts == { Int64MaxPlus1Text, TenPow19Text, Uint64MaxText }

WithinInt64Texts == { D(<<0>>), D(<<1>>), D(<<4, 2>>), Int64MaxText }

\* C8: for an unsigned integer text from 2^63 to 2^64-1 Unmarshal succeeds and
\* IsNumber, IsInteger, IsPositive and GreaterThanInt64Max are true of the
\* node; for one from 0 to 2^63-1 GreaterThanInt64Max is false.
C8_OverflowFlag ==
  /\ (pc # "start" /\ input.core \in AboveInt64Texts) =>
       /\ res.err = ""
       /\ last.name \in {"IsNumber", "IsInteger", "IsPositive", "GreaterThanInt64Max"}
            => last.out = RetB(TRUE)
  /\ (pc # "start" /\ input.core \in WithinInt64Texts) =>
       /\ res.err = ""
       /\ last.name = "GreaterThanInt64Max" => last.out = RetB(FALSE)

C8_FlagSeen ==
  /\ input.core = Uint64MaxText
  /\ last.name = "GreaterThanInt64Max"
  /\ last.out = RetB(TRUE)

\* C9: GreaterThanInt64Max returns true only on a Number node that is a
\* positive integer (IsInteger and IsPositive are true of it: no decimal point,
\* not negative) with a value above 0x7fffffffffffffff.
C9_OnlyPositiveIntegers ==
  (last.name = "GreaterThanInt64Max" /\ last.out.b) =>
    /\ Callee.valueType = "Number"
    /\ IsInteger(Callee, build.conv).out.b
    /\ IsPositive(Callee, build.conv).out.b
    /\ ~ Contains(Callee.valueBytes, Ord.dot)
    /\ Gt64(Callee.u64, MaxInt64)

\* the Number nodes of the tree
NumberNodes ==
  { n \in { NodeAt(res.ret, sel) : sel \in Selectors(res.ret) } : n.valueType = "Number" }

\* C10: on every Number node, whatever predicates and accessors are called,
\* parseNumber runs at most once.
C10_ParsedOnce == \A n \in NumberNodes : n.nparse <= 1

\* the node the last call was made on, as Unmarshal returned it
Fresh == NodeAt(Unmarshal(InputBytes, build).ret, last.sel)

\* C11: on a Number node every predicate and accessor call returns what the
\* same call returns on the node as Unmarshal left it, whatever calls were
\* made before; and the text String() returns is the one it returned then.
C11_StableResults ==
  (last.name # "" /\ Callee.valueType = "Number") =>
    /\ last.out = Call(last.name, Fresh, build.conv).out
    /\ String(Callee) = String(Fresh)

\* a call of IsFloat on a nested number that had been converted before
C11_RepeatedCallSeen ==
  /\ last.name = "IsFloat" /\ last.sel >= 1
  /\ Callee.valueType = "Number" /\ Callee.nparse >= 2
  /\ last.out = RetB(TRUE)

(***************************************************************************)
(* More properties of Unmarshal, checked under Spec.                       *)
(***************************************************************************)
\* b is a numeral: an optional '-', digits, and optionally a '.' between digits
IsNumeral(b) ==
  LET body == IF Len(b) > 0 /\ b[1] = Ord.minus THEN Tail(b) ELSE b
      dots == {j \in 1..Len(body) : body[j] = Ord.dot}
  IN  /\ Len(body) >= 1
      /\ \A j \in 1..Len(body) : IsDigit(body[j]) \/ body[j] = Ord.dot
      /\ Cardinality(dots) <= 1
      /\ \A d \in dots : d > 1 /\ d < Len(body)

\* the input from the first byte of the text on
FromFirstByte == input.core \o input.trail

StartsAsNumber == input.core # <<>> /\ (IsDigit(input.core[1]) \/ input.core[1] = Ord.minus)

MaxOps == 2

\* the indices given to Set and Insert and the indices the callbacks stop at
\* are within MaxLen
MaxLen == 4

KeyNull == Quoted(B(<<"n", "u", "l", "l">>))

OneToThree == ArrayOf(<<D(<<1>>), D(<<2>>), D(<<3>>)>>)

OneToFive == ArrayOf(<<D(<<1>>), D(<<2>>), D(<<3>>), D(<<4>>), D(<<5>>)>>)

\* valid JSON texts
TreeTexts ==
  { B(<<"lbrace", "rbrace">>), ArrayOf(<<>>), ArrayOf(<<D(<<1>>)>>), OneToThree, OneToFive,
    ObjectOf(KeyNull, B(<<"n", "u", "l", "l">>)), ArrayOf(<<B(<<"n", "u", "l", "l">>)>>),
    ObjectOf(KeyK, ArrayOf(<<B(<<"n", "u", "l", "l">>)>>)),
    ObjectOf(KeyK, Quoted(B(<<"a">>))),
    Quoted(B(<<"a">>)), Quoted(B(<<"lt">>)), Quoted(B(<<"slash">>)), Quoted(B(<<"bslash", "n">>)),
    Quoted(<<195, 169>>), Quoted(B(<<"bslash", "u", "d0", "d0", "E", "d9">>)),
    ArrayOf(<<Quoted(B(<<"amp">>))>>),
    B(<<"d1", "dot", "d5">>), B(<<"minus", "d1">>), B(<<"t", "r", "u", "e">>),
    B(<<"n", "u", "l", "l">>) }

\* the children given to Set, the strings "x" and "y", and to Insert, "x"
Children == { StringChild(B(<<"x">>)), StringChild(B(<<"y">>)) }

Inserted == { StringChild(B(<<"x">>)) }

KeyNames == [a |-> B(<<"a">>), b |-> B(<<"b">>), c |-> B(<<"c">>), arr |-> B(<<"a", "r", "r">>)]

SetPaths ==
  { <<Key(KeyNames.a)>>, <<Key(KeyNames.a), Key(KeyNames.b)>>, <<Key(KeyNames.a), Key(KeyNames.c)>> }
    \cup { <<Key(KeyNames.arr), Idx(i)>> : i \in 0..2 }
    \cup { <<Idx(i)>> : i \in (0 - 1)..MaxLen }

InsertPaths == { <<Idx(i)>> : i \in (0 - MaxLen)..(MaxLen - 1) } \cup { <<Key(KeyNames.arr), Idx(0)>> }

Callbacks ==
  { [nil |-> TRUE, stops |-> {}] }
    \cup { [nil |-> FALSE, stops |-> S] : S \in SUBSET (0..(MaxLen - 1)) }

\* the record of a call on the root: before is the root before the call
CallOf(name, path, arg, before, out) ==
  [name |-> name, sel |-> path, arg |-> arg, before |-> before, out |-> out]

InitTree ==
  /\ build \in Builds
  /\ CaselessIdle
  /\ \/ /\ \E c \in TreeTexts : input = [lead |-> <<>>, core |-> c, trail |-> <<>>]
        /\ res = NoResult
        /\ pc = "start"
     \/ /\ input = NoInput
        /\ res = [ret |-> new, err |-> ""]
        /\ pc = "done"
  /\ last = NoCall
  /\ nops = 0
  /\ DecoderIdle

\* v.Set(child).At(path...)
DoSet ==
  /\ pc = "done" /\ res.err = "" /\ nops < MaxOps
  /\ \E path \in SetPaths, child \in Children :
       LET Returned(r) ==
             /\ res' = [res EXCEPT !.ret = r.ret]
             /\ last' = CallOf("Set", path, child, res.ret, [kind |-> "ret", err |-> r.err])
       IN  Returned(SetAt(res.ret, path, child))
  /\ nops' = nops + 1
  /\ UNCHANGED <<lowerCaseKeys, added, build, dsrc, dec, dpc, input, pc>>

\* v.Insert(child).Before(path...) and v.Insert(child).After(path...)
DoInsert ==
  /\ pc = "done" /\ res.err = "" /\ nops < MaxOps
  /\ \E path \in InsertPaths, child \in Inserted, after \in BOOLEAN :
       LET Returned(r) ==
             /\ res' = [res EXCEPT !.ret = r.ret]
             /\ last' = CallOf(IF after THEN "After" ELSE "Before", path, child, res.ret,
                               [kind |-> "ret", err |-> r.err])
       IN  Returned(InsertAt(res.ret, path, child, after))
  /\ nops' = nops + 1
  /\ UNCHANGED <<lowerCaseKeys, added, build, dsrc, dec, dpc, input, pc>>

\* v.RangeArray(callback)
DoRangeArray ==
  /\ pc = "done" /\ res.err = ""
  /\ \E callback \in Callbacks :
       last' = CallOf("RangeArray", <<>>, callback, res.ret,
                      [kind |-> "ret", calls |-> RangeArray(res.ret, callback)])
  /\ pc' = "end"
  /\ UNCHANGED <<lowerCaseKeys, added, build, dsrc, dec, dpc, input, res, nops>>

MarshalNames == {"Marshal", "MarshalString", "MustMarshal", "MustMarshalString"}

MarshalCall(name, v, opt) ==
  IF name = "Marshal" THEN Marshal(v, opt)
  ELSE IF name = "MarshalString" THEN MarshalString(v, opt)
  ELSE IF name = "MustMarshal" THEN MustMarshal(v, opt)
  ELSE MustMarshalString(v, opt)

\* one of the four marshal calls; a panic ends the program
DoMarshal ==
  /\ pc = "done" /\ res.err = ""
  /\ \E name \in MarshalNames, opt \in Opts :
       LET Returned(r) ==
             /\ last' = CallOf(name, <<>>, opt, res.ret, r)
             /\ pc' = IF r.kind = "panic" THEN "crashed" ELSE "end"
       IN  Returned(MarshalCall(name, res.ret, opt))
  /\ UNCHANGED <<lowerCaseKeys, added, build, dsrc, dec, dpc, input, res, nops>>

\* v.String()
DoString ==
  /\ pc = "done" /\ res.err = ""
  /\ last' = CallOf("String", <<>>, <<>>, res.ret, [kind |-> "ret", out |-> String(res.ret)])
  /\ pc' = "end"
  /\ UNCHANGED <<lowerCaseKeys, added, build, dsrc, dec, dpc, input, res, nops>>

NextTree == DoUnmarshal \/ DoSet \/ DoInsert \/ DoRangeArray \/ DoMarshal \/ DoString

SpecTree == InitTree /\ [][NextTree]_vars

(***************************************************************************)
(* Properties of Set, Insert, RangeArray, Marshal and String, checked      *)
(* under SpecTree.                                                         *)
(***************************************************************************)
\* the scalar of a Number node, converted when it was not yet
NumberValue(v) ==
  LET Of(p) == [err |-> p.err, negative |-> p.v.negative, floated |-> p.v.floated,
                i64 |-> p.v.i64, u64 |-> p.v.u64, f64 |-> p.v.f64]
  IN  Of(IF v.parsed THEN [v |-> v, err |-> ""] ELSE parseNumber(v, build.conv))

Keys(o) == { o.object[j].k : j \in 1..Len(o.object) }

Member(o, k) == o.object[MemberPos(o, k)].v

\* two trees are deep-equal: the same variant at every node, the same keys in
\* every object, the same elements in the same order in every array, equal scalars
RECURSIVE DeepEqual(_, _)
DeepEqual(a, b) ==
  /\ a.valueType = b.valueType
  /\ a.valueType = "String" => a.str = b.str
  /\ a.valueType = "Boolean" => a.boolean = b.boolean
  /\ a.valueType = "Number" => NumberValue(a) = NumberValue(b)
  /\ a.valueType = "Object" =>
       /\ Keys(a) = Keys(b)
       /\ Len(a.object) = Len(b.object)
       /\ \A k \in Keys(a) : DeepEqual(Member(a, k), Member(b, k))
  /\ a.valueType = "Array" =>
       /\ Len(a.array) = Len(b.array)
       /\ \A j \in 1..Len(a.array) : DeepEqual(a.array[j], b.array[j])

\* the last call was Marshal or MarshalString without options on the tree that
\* Unmarshal returned for a valid text
MarshalledAsParsed ==
  /\ last.name \in {"Marshal", "MarshalString"} /\ ~ last.arg.OmitNull
  /\ nops = 0 /\ input.core \in TreeTexts

Reparsed == Unmarshal(last.out.out, build)

\* C13: for a tree v that Unmarshal returned for a valid text, Unmarshal of
\* the text Marshal gives for v succeeds and returns a tree deep-equal to v.
C13_RoundTrip ==
  MarshalledAsParsed =>
    /\ last.out.err = ""
    /\ Reparsed.err = ""
    /\ DeepEqual(Reparsed.ret, res.ret)

\* the node the selectors path lead to from v, NilV when there is none
RECURSIVE GetPath(_, _)
GetPath(v, path) ==
  IF path = <<>> THEN v
  ELSE LET s == Head(path) IN
       IF s.t = "key" THEN
         IF v.valueType = "Object" /\ s.k \in Keys(v) THEN GetPath(Member(v, s.k), Tail(path))
         ELSE NilV
       ELSE
         IF v.valueType = "Array" /\ s.i >= 0 /\ s.i < Len(v.array)
         THEN GetPath(v.array[s.i + 1], Tail(path))
         ELSE NilV

Prefix(path, n) == SubSeq(path, 1, n)

Missing(v) == v.valueType = "nil"

ObjectNode(members) == [newObject EXCEPT !.object = members]

ArrayNode(elems) == [newArray EXCEPT !.array = elems]

StrX == StringChild(B(<<"x">>))

StrY == StringChild(B(<<"y">>))

\* the last call was Set..At with string selectors only, on an object in which
\* every position on the way is an object or does not exist
SetByKeys ==
  /\ last.name = "Set"
  /\ \A j \in 1..Len(last.sel) : last.sel[j].t = "key"
  /\ last.before.valueType = "Object"
  /\ \A n \in 1..(Len(last.sel) - 1) :
       GetPath(last.before, Prefix(last.sel, n)).valueType \in {"nil", "Object"}

\* {"a":{"b":"x"}} and {"a":{"b":"x","c":"y"}}
AfterFirstSet ==
  ObjectNode(<<[k |-> KeyNames.a, v |-> ObjectNode(<<[k |-> KeyNames.b, v |-> StrX]>>)]>>)

AfterSecondSet ==
  ObjectNode(<<[k |-> KeyNames.a,
                v |-> ObjectNode(<<[k |-> KeyNames.b, v |-> StrX], [k |-> KeyNames.c, v |-> StrY]>>)]>>)

\* C14: Set(child).At(k1,...,kn) with string selectors succeeds, the node at
\* the path is child afterwards, every position on the way holds an object,
\* a new one of the next key alone where none existed, and an existing one
\* with its other members as they were; Set("y").At("a","c") on
\* {"a":{"b":"x"}} gives {"a":{"b":"x","c":"y"}}.
C14_AutoVivification ==
  SetByKeys =>
    /\ last.out.err = ""
    /\ GetPath(res.ret, last.sel) = last.arg
    /\ \A n \in 0..(Len(last.sel) - 1) :
         LET old == GetPath(last.before, Prefix(last.sel, n))
             now == GetPath(res.ret, Prefix(last.sel, n))
             k == last.sel[n + 1].k
         IN  /\ now.valueType = "Object"
             /\ Missing(old) => Keys(now) = {k}
             /\ ~ Missing(old) =>
                  /\ Keys(now) = Keys(old) \cup {k}
                  /\ \A q \in Keys(old) \ {k} : Member(now, q) = Member(old, q)
    /\ (DeepEqual(last.before, AfterFirstSet) /\ last.arg = StrY
          /\ last.sel = <<Key(KeyNames.a), Key(KeyNames.c)>>)
         => DeepEqual(res.ret, AfterSecondSet)

C14_SecondSetSeen ==
  /\ input.core = B(<<"lbrace", "rbrace">>) /\ nops = 2
  /\ last.name = "Set" /\ last.arg = StrY /\ last.sel = <<Key(KeyNames.a), Key(KeyNames.c)>>
  /\ last.before = AfterFirstSet
  /\ DeepEqual(res.ret, AfterSecondSet)

\* the last call was Set..At(k, i) on an object without the member k
SetInMissingArray ==
  /\ last.name = "Set" /\ Len(last.sel) = 2
  /\ last.sel[1].t = "key" /\ last.sel[2].t = "idx"
  /\ last.before.valueType = "Object" /\ last.sel[1].k \notin Keys(last.before)

\* C15: Set(child).At(k, i) where the object has no member k succeeds for
\* i = 0 only: the member k becomes the array [child] and the other members
\* stay; for every other i the call fails with the error of an invalid index
\* for the creation of an array and the object is as before.
C15_ArrayCreatedAtZeroOnly ==
  SetInMissingArray =>
    IF last.sel[2].i = 0
    THEN /\ last.out.err = ""
         /\ Keys(res.ret) = Keys(last.before) \cup {last.sel[1].k}
         /\ Member(res.ret, last.sel[1].k) = ArrayNode(<<last.arg>>)
         /\ \A q \in Keys(last.before) : Member(res.ret, q) = Member(last.before, q)
    ELSE /\ last.out.err = ErrInvalidArrayCreationIndex
         /\ res.ret = last.before

C15_NonZeroIndexSeen ==
  /\ input.core = B(<<"lbrace", "rbrace">>) /\ nops = 1
  /\ last.name = "Set" /\ last.sel = <<Key(KeyNames.arr), Idx(1)>>
  /\ last.out.err = ErrInvalidArrayCreationIndex
  /\ res.ret = newObject

\* the selectors of the last call but the last one, and the array they lead to
Upto == Prefix(last.sel, Len(last.sel) - 1)

ArrayBefore == GetPath(last.before, Upto)

ArrayAfter == GetPath(res.ret, Upto)

LastIndex == last.sel[Len(last.sel)].i

\* the last call was Set..At(..., i) with i addressing an array that exists
SetInArray ==
  /\ last.name = "Set" /\ last.sel[Len(last.sel)].t = "idx"
  /\ ArrayBefore.valueType = "Array"

\* C16: on an array of length n that exists, Set(child).At(..., i) puts child
\* in the place of element i when 0 <= i < n, the length staying n, appends
\* child when i = n, the length becoming n + 1, and for every other i fails
\* with the error of an index out of range and leaves the tree as it was; so
\* an array grows by at most one element per call, at its end.
C16_ReplaceOrAppend ==
  SetInArray =>
    LET n == Len(ArrayBefore.array) IN
    /\ (LastIndex >= 0 /\ LastIndex < n) =>
         /\ last.out.err = ""
         /\ ArrayAfter.array = [ArrayBefore.array EXCEPT ![LastIndex + 1] = last.arg]
    /\ LastIndex = n =>
         /\ last.out.err = ""
         /\ ArrayAfter.array = ArrayBefore.array \o <<last.arg>>
    /\ (LastIndex < 0 \/ LastIndex > n) =>
         /\ last.out.err = ErrIndexOutOfRange
         /\ res.ret = last.before

C16_AppendedSeen ==
  /\ input.core = OneToThree /\ nops = 1
  /\ last.name = "Set" /\ last.sel = <<Idx(3)>> /\ last.out.err = ""
  /\ Len(res.ret.array) = 4 /\ res.ret.array[4] = last.arg

\* the last call was Insert..Before(i) or Insert..After(i) on a root that is
\* an array
InsertInArray ==
  /\ last.name \in {"Before", "After"} /\ Len(last.sel) = 1
  /\ last.before.valueType = "Array"

\* the position (0-based) the inserted element is to have
Resolved(n, i) == IF i < 0 THEN n + i ELSE i

InsertedAt(n, i) == IF last.name = "After" THEN Resolved(n, i) + 1 ELSE Resolved(n, i)

\* C17: on an array of length n, Insert(child).Before(i) and .After(i) succeed
\* exactly for -n <= i <= n-1; then the array has n+1 elements, child at the
\* position r for Before and r+1 for After, where r is i, or n+i when i is
\* negative, and the old elements around it in their order; for every other
\* i the call fails with the error of an index out of range and the tree is
\* as before; a call whose path leads to no array fails and creates none.
C17_InsertPosition ==
  /\ InsertInArray =>
       LET old == last.before.array
           n == Len(old)
           i == LastIndex
           at == InsertedAt(n, i)
       IN  IF i >= 0 - n /\ i <= n - 1
           THEN /\ last.out.err = ""
                /\ Len(res.ret.array) = n + 1
                /\ res.ret.array[at + 1] = last.arg
                /\ \A j \in 1..n : res.ret.array[IF j <= at THEN j ELSE j + 1] = old[j]
           ELSE /\ last.out.err = ErrIndexOutOfRange
                /\ res.ret = last.before
  /\ (last.name \in {"Before", "After"} /\ Missing(ArrayBefore)) =>
       /\ last.out.err # ""
       /\ res.ret = last.before

C17_BeforeLastSeen ==
  /\ input.core = OneToThree /\ nops = 1
  /\ last.name = "Before" /\ last.sel = <<Idx(0 - 1)>> /\ last.out.err = ""
  /\ Len(res.ret.array) = 4
  /\ res.ret.array[3] = StrX
  /\ <<res.ret.array[1], res.ret.array[2], res.ret.array[4]>> = last.before.array

\* v without the members of its objects whose value is null
RECURSIVE Prune(_)
Prune(v) ==
  IF v.valueType = "Object" THEN
    LET kept == SelectSeq(v.object, LAMBDA m : m.v.valueType # "Null")
    IN  [v EXCEPT !.object = [j \in 1..Len(kept) |-> [k |-> kept[j].k, v |-> Prune(kept[j].v)]]]
  ELSE IF v.valueType = "Array" THEN
    [v EXCEPT !.array = [j \in 1..Len(v.array) |-> Prune(v.array[j])]]
  ELSE v

\* two trees have the same variant at every node, the same keys in every
\* object and as many elements in every array
RECURSIVE SameShape(_, _)
SameShape(a, b) ==
  /\ a.valueType = b.valueType
  /\ a.valueType = "Object" =>
       /\ Keys(a) = Keys(b)
       /\ Len(a.object) = Len(b.object)
       /\ \A k \in Keys(a) : SameShape(Member(a, k), Member(b, k))
  /\ a.valueType = "Array" =>
       /\ Len(a.array) = Len(b.array)
       /\ \A j \in 1..Len(a.array) : SameShape(a.array[j], b.array[j])

NullMember == ObjectNode(<<[k |-> B(<<"n", "u", "l", "l">>), v |-> newFromNull(B(<<"n", "u", "l", "l">>)).ret]>>)

\* the last call was Marshal or MarshalString on a node that is initialized
Marshalled ==
  /\ last.name \in {"Marshal", "MarshalString"}
  /\ res.ret.valueType # "NotExist"

\* C18: the text Marshal and MarshalString give with OmitNull reads back as
\* the tree without the null members of its objects, null elements of arrays
\* included; the text they give without the option reads back with every
\* member; {"null":null} gives {} with OmitNull and {"null":null} without.
C18_OmitNull ==
  Marshalled =>
    /\ last.out.err = ""
    /\ Reparsed.err = ""
    /\ SameShape(Reparsed.ret, IF last.arg.OmitNull THEN Prune(res.ret) ELSE res.ret)
    /\ DeepEqual(res.ret, NullMember) =>
         last.out.out = IF last.arg.OmitNull THEN B(<<"lbrace", "rbrace">>)
                        ELSE ObjectOf(KeyNull, B(<<"n", "u", "l", "l">>))

C18_NullMemberOmittedSeen ==
  /\ last.name = "MarshalString" /\ last.arg.OmitNull
  /\ DeepEqual(res.ret, NullMember)
  /\ last.out.out = B(<<"lbrace", "rbrace">>)

\* the indices below n the callback of the last call returns false for
StopsBelow(n) == { k \in last.arg.stops : k < n }

Least(S) == CHOOSE k \in S : \A j \in S : k <= j

\* C19: RangeArray calls the callback with the indices 0, 1, 2, ... in this
\* order, k + 1 times when k is the first index the callback returns false
\* for and once per element when there is none; with a nil callback or on a
\* node that is no array it makes no call; it returns in every case.
C19_RangeArrayStops ==
  last.name = "RangeArray" =>
    /\ last.out.kind = "ret"
    /\ \A j \in 1..Len(last.out.calls) : last.out.calls[j] = j - 1
    /\ IF last.arg.nil \/ res.ret.valueType # "Array" THEN last.out.calls = <<>>
       ELSE IF StopsBelow(Len(res.ret.array)) = {} THEN Len(last.out.calls) = Len(res.ret.array)
       ELSE Len(last.out.calls) = Least(StopsBelow(Len(res.ret.array))) + 1

C19_StoppedAtThreeSeen ==
  /\ input.core = OneToFive /\ nops = 0
  /\ last.name = "RangeArray" /\ ~ last.arg.nil /\ last.arg.stops = {3}
  /\ last.out.calls = <<0, 1, 2, 3>>

\* the root is a zero V: a node that was neither parsed nor constructed
ZeroV == res.ret.valueType = "NotExist"

\* C20: on a zero V, Marshal and MarshalString return an error and no text,
\* MustMarshal and MustMarshalString panic, and String returns the empty
\* string.
C20_ZeroValue ==
  (ZeroV /\ last.name # "") =>
    /\ last.name \in {"Marshal", "MarshalString"} =>
         (last.out.kind = "ret" /\ last.out.err # "" /\ last.out.out = <<>>)
    /\ last.name \in {"MustMarshal", "MustMarshalString"} =>
         (last.out.kind = "panic" /\ pc = "crashed")
    /\ last.name = "String" => last.out.out = <<>>

C20_MustMarshalPanicSeen ==
  /\ ZeroV /\ input = NoInput
  /\ last.name = "MustMarshal" /\ last.out.kind = "panic" /\ pc = "crashed"

\* C29: for every Number node of the tree a successful Unmarshal returned,
\* whatever calls have been made on it, IsFloat and IsInteger return normally
\* and exactly one of them gives true, and so do IsNegative and IsPositive.
C29_ExactlyOneOfEach ==
  (pc = "done" /\ res.err = "") =>
    \A n \in NumberNodes :
      LET Gives(name) == Call(name, n, build.conv).out IN
      /\ \A name \in {"IsFloat", "IsInteger", "IsNegative", "IsPositive"} :
           Gives(name).kind = "ret"
      /\ Gives("IsFloat").b # Gives("IsInteger").b
      /\ Gives("IsNegative").b # Gives("IsPositive").b

\* integer texts with the 64 bits of their value, 16 bits at a time from the
\* least significant: 0, 1, 42, 2^63 - 1, 2^63, 10^19, 2^64 - 1, -1, -2^63
IntegerBits ==
  { <<D(<<0>>), <<0, 0, 0, 0>>>>,
    <<D(<<1>>), <<1, 0, 0, 0>>>>,
    <<D(<<4, 2>>), <<42, 0, 0, 0>>>>,
    <<Int64MaxText, <<65535, 65535, 65535, 32767>>>>,
    <<Int64MaxPlus1Text, <<0, 0, 0, 32768>>>>,
    <<TenPow19Text, <<0, 35304, 8964, 35527>>>>,
    <<Uint64MaxText, <<65535, 65535, 65535, 65535>>>>,
    <<B(<<"minus", "d1">>), <<65535, 65535, 65535, 65535>>>>,
    <<B(<<"minus">>) \o Int64MaxPlus1Text, <<0, 0, 0, 32768>>>> }

\* C30: on a Number node whose text is an integer without decimal point,
\* in [0, 2^64) when unsigned and in [-2^63, 0) when negative, Uint64 and
\* Int64 return the 64 bits of the value (for Int64 read as two's
\* complement, for Uint64 as value modulo 2^64), and Int32 and Uint32 the
\* low 32 of these bits.
C30_IntegerAccessors ==
  \A p \in IntegerBits :
    (/\ last.name \in {"Int64", "Uint64", "Int32", "Uint32"}
     /\ Callee.valueType = "Number"
     /\ Callee.valueBytes = p[1])
      => /\ last.out.kind = "ret"
         /\ last.name \in {"Int64", "Uint64"} => last.out.n = p[2]
         /\ last.name \in {"Int32", "Uint32"} => last.out.n = <<p[2][1], p[2][2]>>

\* Int64 has been called on the element of [18446744073709551615] and gave -1
C30_NestedUint64MaxAsInt64Seen ==
  /\ last.name = "Int64" /\ last.sel = 1
  /\ Callee.valueBytes = Uint64MaxText
  /\ last.out = RetN(<<65535, 65535, 65535, 65535>>)

(***************************************************************************)
(* addCaselessKey and delCaselessKey called in any order on the index of   *)
(* one object made by newObject.  added is the set of keys that have been  *)
(* added and not deleted since.                                            *)
(***************************************************************************)
CaselessKeys ==
  { B(<<"a">>), B(<<"A">>), B(<<"b">>), B(<<"B">>),
    B(<<"a", "b">>), B(<<"A", "b">>), B(<<"a", "B">>), B(<<"A", "B">>) }

\* the record of a call on the index: the key, and the index before the call
KeyCall(name, k) ==
  [name |-> name, key |-> k, before |-> lowerCaseKeys, had |-> k \in added]

InitCaseless ==
  /\ build \in Builds
  /\ CaselessIdle
  /\ DecoderIdle
  /\ ParserIdle

AddCaselessKey ==
  /\ \E k \in CaselessKeys :
       /\ lowerCaseKeys' = addCaselessKey(lowerCaseKeys, k)
       /\ added' = added \cup {k}
       /\ last' = KeyCall("addCaselessKey", k)
  /\ UNCHANGED <<build, dsrc, dec, dpc, input, res, pc, nops>>

DelCaselessKey ==
  /\ \E k \in CaselessKeys :
       /\ lowerCaseKeys' = delCaselessKey(lowerCaseKeys, k)
       /\ added' = added \ {k}
       /\ last' = KeyCall("delCaselessKey", k)
  /\ UNCHANGED <<build, dsrc, dec, dpc, input, res, pc, nops>>

NextCaseless == AddCaselessKey \/ DelCaselessKey

SpecCaseless == InitCaseless /\ [][NextCaseless]_vars

\* the lowercase form of a key, written apart from ToLower: each letter of
\* the keys by its lowercase letter
Lowered(k) ==
  [j \in 1..Len(k) |-> IF k[j] \in {Ord.a, Ord.A} THEN Ord.a ELSE Ord.b]

\* C28: after any sequence of addCaselessKey and delCaselessKey the index
\* has a bucket for exactly the lowercase forms of the keys added and not
\* deleted since, each bucket holds exactly those of these keys that have
\* its lowercase form, no bucket is empty, and a delCaselessKey of a key
\* that was not present has left the index as it was.
C28_CaselessIndexExact ==
  /\ DOMAIN lowerCaseKeys = {Lowered(k) : k \in added}
  /\ \A L \in DOMAIN lowerCaseKeys :
       /\ lowerCaseKeys[L] = {k \in added : Lowered(k) = L}
       /\ lowerCaseKeys[L] # {}
  /\ (last.name = "delCaselessKey" /\ ~ last.had) => lowerCaseKeys = last.before

\* the last of several keys of one bucket has been deleted and the bucket is
\* gone, while another bucket is still there
C28_LastKeyOfBucketDeletedSeen ==
  /\ last.name = "delCaselessKey"
  /\ last.had
  /\ last.before[Lowered(last.key)] = {last.key}
  /\ Lowered(last.key) \notin DOMAIN lowerCaseKeys
  /\ \E L \in DOMAIN lowerCaseKeys : Cardinality(lowerCaseKeys[L]) >= 2

=============================================================================
